---- MODULE Spec2Model ----
(***************************************************************************)
(* ExpenseTracker Pro backend: the account store (User model), the token   *)
(* issuer and request gate (middleware/auth) and the authentication routes *)
(* (routes/auth, routes/users), as a state machine.                        *)
(*                                                                         *)
(* Time is counted in units of ten minutes (the shortest window the code   *)
(* uses, the password-reset expiry).  A timestamp of Null (0) is the       *)
(* schema's `default: null`; the clock starts at 1.                        *)
(*                                                                         *)
(* Requests are the ones the rate limiters of server.js admit; the         *)
(* limiters themselves (per client address) are not part of the model.     *)
(* The deployment mode (MongoDB reachable at start-up or not, connectDB)   *)
(* is chosen in Init and stays fixed during a run.                         *)
(***************************************************************************)
EXTENDS Integers, Sequences, FiniteSets, TLC

(* ------------------------------ bounds -------------------------------- *)
MaxClock == 14        \* the clock runs from 1 to MaxClock
MaxTokens == 2        \* reset tokens issued during one run
MaxPending == 1       \* forgot-password requests in flight at one time
MaxLogins == 2        \* login requests in flight at one time
MaxCats == 3          \* categories created during one run
MaxTx == 2            \* transactions created during one run
MaxItems == 2         \* transactions the user enters in the client
MaxSyncs == 2         \* syncOfflineData runs in flight at one time
MaxQueueLen == 3      \* entries of the offline queue
MaxCopies == 2        \* backend transactions created for one entered transaction
MaxDay == 4           \* calendar days
MaxRoots == 2         \* recurring transactions the users enter
MaxDocs == 6          \* documents of the collection in the sweep's view

(* ------------------------- program constants -------------------------- *)
Null == 0
ResetTokenTtl == 1          \* 10 * 60 * 1000 ms
LockTime == 12              \* 2 * 60 * 60 * 1000 ms
MaxLoginAttempts == 5
AccessTokenTtl == 1008      \* '7d'
RefreshTokenTtl == 4320     \* '30d'
VerifyTokenTtl == 144       \* 24 * 60 * 60 * 1000 ms
Sha256Offset == 1000        \* digests live apart from the raw tokens

(* ------------------------------ inputs -------------------------------- *)
SeedEmail == "john@example.com"
SeedPassword == "password123"
Emails == {"john@example.com", "John@Example.com", "new@example.com", "not-an-email"}
Passwords == {"password123", "Passw0rd!", "N3wPass!1"}
Names == {"", "New User"}

\* express-validator isEmail()
IsEmail(e) == e # "not-an-email" /\ e # ""

\* express-validator normalizeEmail() / schema `lowercase: true`
normalizeEmail(e) == IF e = "John@Example.com" THEN "john@example.com" ELSE e

\* isLength({min: 8}) and the upper/lower/digit/special pattern of the routes
IsStrongPassword(p) == p \in {"Passw0rd!", "N3wPass!1"}

\* the `match` pattern of userSchema.email: the last label has 2 or 3 characters
EmailMatchesSchema(e) == e \in {"john@example.com", "new@example.com"}

\* what an OAuth provider can report: a provider-side id, and an address
\* (lowercase, as the providers deliver it) or none ("")
Providers == {"google", "facebook"}
ProviderIds == {1, 2}
ProfileEmails == {"john@example.com", "new@example.com", ""}

(* ------------------------------ messages ------------------------------ *)
MsgInvalidCredentials == "Invalid credentials"
MsgLocked == "Account is temporarily locked due to too many failed login attempts"
MsgDeactivated == "Account is deactivated"
MsgValidation == "Validation failed"
MsgResetSent == "If an account with that email exists, a password reset link has been sent."
MsgResetBadToken == "Invalid or expired reset token"

(* --------------------------- stored values ---------------------------- *)
NoPassword == [kind |-> "none", of |-> ""]
BcryptHash(p) == [kind |-> "bcrypt", of |-> p]
Plaintext(p) == [kind |-> "plain", of |-> p]

\* bcrypt.compare(candidate, stored): false for anything that is not a hash
BcryptCompare(cand, stored) == stored.kind = "bcrypt" /\ stored.of = cand

Sha256(tok) == Sha256Offset + tok

VARIABLES users, now, readyState, resp, issued, pending, nextTok, redeemed, rolledBack,
          closed

\* login requests between their findOne and their write: the document each
\* one read, and whether its password matches
VARIABLES logins

\* the categories collection and the number of the next document created in it
VARIABLES categories, nextCat

\* the transactions collection and the number of the next document created in it
VARIABLES txs, nextTx

\* the API client in the browser: its offline queue in localStorage, the sync
\* runs in flight, the number of the next transaction the user enters, and how
\* often the backend has created each of them
VARIABLES offlineQueue, syncRuns, nextItem, createdCount

\* the API client's token, and the access token of the answer to its last
\* login or register (none before the first and after a logout)
VARIABLES clientToken, sessionToken

\* the recurring transactions of the collection with the transactions
\* generated from them, the calendar day, and the number of the next document
VARIABLES recurring, day, nextRec

\* the state outside the account routes taken one request at a time
ledger == <<categories, nextCat, txs, nextTx>>

client == <<offlineQueue, syncRuns, nextItem, createdCount, clientToken, sessionToken>>

sweep == <<recurring, day, nextRec>>

others == <<logins, ledger, client, sweep>>

vars == <<users, now, readyState, resp, issued, pending, nextTok, redeemed, rolledBack,
          closed, others>>

NoToken == [kind |-> "none", userId |-> 0, exp |-> 0]
NoResp == [op |-> "none", status |-> 0, msg |-> "", uid |-> 0, tok |-> 0,
           lockExpired |-> FALSE]

Ids(us) == 1..Len(us)

\* a document as `new User({...})` builds it from the schema defaults
NewUser(email, password) ==
    [email |-> email, password |-> password,
     isActive |-> TRUE, isGuest |-> FALSE, isEmailVerified |-> FALSE,
     loginAttempts |-> 0, lockUntil |-> Null,
     passwordResetToken |-> Null, passwordResetExpires |-> Null,
     emailVerificationToken |-> Null, emailVerificationExpires |-> Null,
     googleId |-> Null, facebookId |-> Null]

(* ----------------------------- User model ----------------------------- *)
\* User.findOne({ email }): the unique index leaves at most one match
FindByEmail(us, e) ==
    IF \E i \in Ids(us) : us[i].email = e
    THEN CHOOSE i \in Ids(us) : us[i].email = e
    ELSE 0

\* FindByResetToken without the condition on passwordResetExpires
FindByResetToken_IgnoresExpiry(us, hashed, t) ==
    IF \E i \in Ids(us) : us[i].passwordResetToken = hashed
    THEN CHOOSE i \in Ids(us) : us[i].passwordResetToken = hashed
    ELSE 0

\* User.findOne({ passwordResetToken: hashed, passwordResetExpires: { $gt: now } })
FindByResetToken(us, hashed, t) ==
    IF \E i \in Ids(us) : us[i].passwordResetToken = hashed /\ us[i].passwordResetExpires > t
    THEN CHOOSE i \in Ids(us) : us[i].passwordResetToken = hashed /\ us[i].passwordResetExpires > t
    ELSE 0

\* User.findOne({ emailVerificationToken: hashed, emailVerificationExpires: { $gt: now } })
FindByVerificationToken(us, hashed, t) ==
    LET open(i) == us[i].emailVerificationToken = hashed /\ us[i].emailVerificationExpires > t
    IN  IF \E i \in Ids(us) : open(i) THEN CHOOSE i \in Ids(us) : open(i) ELSE 0

\* virtual isLocked
isLocked(u, t) == u.lockUntil # Null /\ u.lockUntil > t

\* methods.comparePassword
comparePassword(u, cand) ==
    IF u.password.kind = "none" THEN FALSE ELSE BcryptCompare(cand, u.password)

\* PreSave with a hashing hook that only acts on new documents
PreSave_HashesNewOnly(doc, modified, isNew) ==
    LET hashed == IF "password" \in modified /\ isNew
                  THEN [doc EXCEPT !.password = BcryptHash(doc.password.of)]
                  ELSE doc
        cleared == IF "password" \in modified /\ ~isNew
                   THEN [hashed EXCEPT !.passwordResetToken = Null,
                                       !.passwordResetExpires = Null]
                   ELSE hashed
    IN  IF "isEmailVerified" \in modified /\ cleared.isEmailVerified
        THEN [cleared EXCEPT !.emailVerificationToken = Null,
                             !.emailVerificationExpires = Null]
        ELSE cleared

\* PreSave without the clean-up of the reset token on a password change
PreSave_KeepsResetToken(doc, modified, isNew) ==
    LET hashed == IF "password" \in modified
                  THEN [doc EXCEPT !.password = BcryptHash(doc.password.of)]
                  ELSE doc
    IN  IF "isEmailVerified" \in modified /\ hashed.isEmailVerified
        THEN [hashed EXCEPT !.emailVerificationToken = Null,
                            !.emailVerificationExpires = Null]
        ELSE hashed

\* both pre('save') hooks, in order; `modified` is the set of modified paths
PreSave(doc, modified, isNew) ==
    LET hashed == IF "password" \in modified
                  THEN [doc EXCEPT !.password = BcryptHash(doc.password.of)]
                  ELSE doc
        cleared == IF "password" \in modified /\ ~isNew
                   THEN [hashed EXCEPT !.passwordResetToken = Null,
                                       !.passwordResetExpires = Null]
                   ELSE hashed
    IN  IF "isEmailVerified" \in modified /\ cleared.isEmailVerified
        THEN [cleared EXCEPT !.emailVerificationToken = Null,
                             !.emailVerificationExpires = Null]
        ELSE cleared

\* methods.createPasswordResetToken, with `tok` the random token drawn
createPasswordResetToken(u, tok, t) ==
    [u EXCEPT !.passwordResetToken = Sha256(tok),
              !.passwordResetExpires = t + ResetTokenTtl]

\* incLoginAttempts with the threshold compared by > instead of >=
incLoginAttempts_LateLock(u, t) ==
    IF u.lockUntil # Null /\ u.lockUntil < t
    THEN [u EXCEPT !.lockUntil = Null, !.loginAttempts = 1]
    ELSE IF u.loginAttempts + 1 > MaxLoginAttempts /\ ~isLocked(u, t)
         THEN [u EXCEPT !.loginAttempts = @ + 1, !.lockUntil = t + LockTime]
         ELSE [u EXCEPT !.loginAttempts = @ + 1]

\* incLoginAttempts without the restart after a lock that has run out
incLoginAttempts_NoRestart(u, t) ==
    IF u.loginAttempts + 1 >= MaxLoginAttempts /\ ~isLocked(u, t)
    THEN [u EXCEPT !.loginAttempts = @ + 1, !.lockUntil = t + LockTime]
    ELSE [u EXCEPT !.loginAttempts = @ + 1]

\* methods.incLoginAttempts: the update applied to the stored document
incLoginAttempts(u, t) ==
    IF u.lockUntil # Null /\ u.lockUntil < t
    THEN [u EXCEPT !.lockUntil = Null, !.loginAttempts = 1]
    ELSE IF u.loginAttempts + 1 >= MaxLoginAttempts /\ ~isLocked(u, t)
         THEN [u EXCEPT !.loginAttempts = @ + 1, !.lockUntil = t + LockTime]
         ELSE [u EXCEPT !.loginAttempts = @ + 1]

\* methods.resetLoginAttempts: $unset, so both fields read as their defaults
resetLoginAttempts(u) == [u EXCEPT !.loginAttempts = 0, !.lockUntil = Null]

\* findByCredentials telling an unknown email apart from a wrong password
findByCredentials_TellsUnknown(us, t, email, password) ==
    LET id == FindByEmail(us, email) IN
    IF id = 0
    THEN [ok |-> FALSE, msg |-> "User not found", users |-> us, uid |-> 0]
    ELSE IF isLocked(us[id], t)
    THEN [ok |-> FALSE, msg |-> MsgLocked, users |-> us, uid |-> id]
    ELSE IF ~us[id].isActive
    THEN [ok |-> FALSE, msg |-> MsgDeactivated, users |-> us, uid |-> id]
    ELSE IF ~comparePassword(us[id], password)
    THEN [ok |-> FALSE, msg |-> MsgInvalidCredentials,
          users |-> [us EXCEPT ![id] = incLoginAttempts(us[id], t)], uid |-> id]
    ELSE [ok |-> TRUE, msg |-> "Login successful",
          users |-> IF us[id].loginAttempts > 0
                    THEN [us EXCEPT ![id] = resetLoginAttempts(us[id])]
                    ELSE us,
          uid |-> id]

\* findByCredentials without the check of isActive
findByCredentials_IgnoresActive(us, t, email, password) ==
    LET id == FindByEmail(us, email) IN
    IF id = 0
    THEN [ok |-> FALSE, msg |-> MsgInvalidCredentials, users |-> us, uid |-> 0]
    ELSE IF isLocked(us[id], t)
    THEN [ok |-> FALSE, msg |-> MsgLocked, users |-> us, uid |-> id]
    ELSE IF ~comparePassword(us[id], password)
    THEN [ok |-> FALSE, msg |-> MsgInvalidCredentials,
          users |-> [us EXCEPT ![id] = incLoginAttempts(us[id], t)], uid |-> id]
    ELSE [ok |-> TRUE, msg |-> "Login successful",
          users |-> IF us[id].loginAttempts > 0
                    THEN [us EXCEPT ![id] = resetLoginAttempts(us[id])]
                    ELSE us,
          uid |-> id]

\* statics.findByCredentials(identifier, password), identifier an email
findByCredentials(us, t, email, password) ==
    LET id == FindByEmail(us, email) IN
    IF id = 0
    THEN [ok |-> FALSE, msg |-> MsgInvalidCredentials, users |-> us, uid |-> 0]
    ELSE IF isLocked(us[id], t)
    THEN [ok |-> FALSE, msg |-> MsgLocked, users |-> us, uid |-> id]
    ELSE IF ~us[id].isActive
    THEN [ok |-> FALSE, msg |-> MsgDeactivated, users |-> us, uid |-> id]
    ELSE IF ~comparePassword(us[id], password)
    THEN [ok |-> FALSE, msg |-> MsgInvalidCredentials,
          users |-> [us EXCEPT ![id] = incLoginAttempts(us[id], t)], uid |-> id]
    ELSE [ok |-> TRUE, msg |-> "Login successful",
          users |-> IF us[id].loginAttempts > 0
                    THEN [us EXCEPT ![id] = resetLoginAttempts(us[id])]
                    ELSE us,
          uid |-> id]

\* the synthetic address of statics.createGuestUser
GuestEmail(t) == "guest_" \o ToString(t) \o "@expensetracker.local"

\* Model.create / save of a new document: validation, unique index, hooks
CreateUser(us, doc, modified) ==
    IF ~EmailMatchesSchema(doc.email) \/ FindByEmail(us, doc.email) # 0
    THEN [ok |-> FALSE, users |-> us]
    ELSE [ok |-> TRUE, users |-> Append(us, PreSave(doc, modified, TRUE))]

\* statics.createGuestUser
createGuestUser(us, t) ==
    CreateUser(us, [NewUser(GuestEmail(t), NoPassword) EXCEPT
                        !.isGuest = TRUE, !.isEmailVerified = TRUE], {})

\* User.findOne({ googleId: profile.id }) / User.findOne({ facebookId: profile.id })
FindByProviderId(us, provider, pid) ==
    LET holds(i) == IF provider = "google" THEN us[i].googleId = pid
                                           ELSE us[i].facebookId = pid
    IN  IF \E i \in Ids(us) : holds(i)
        THEN CHOOSE i \in Ids(us) : holds(i) /\ \A j \in Ids(us) : holds(j) => i <= j
        ELSE 0

\* the address the Facebook strategy makes up for a profile without one
FacebookEmail(pid) == "facebook_" \o ToString(pid) \o "@facebook.local"

\* the verify callback of the Google / Facebook strategy: the account handed
\* to passport (uid), or an error (ok = FALSE)
OAuthVerify(us, rs, provider, pid, email) ==
    LET failed == [ok |-> FALSE, users |-> us, uid |-> 0]
        byId == FindByProviderId(us, provider, pid)
        byEmail == IF email = "" THEN 0 ELSE FindByEmail(us, email)
        linked == IF provider = "google"
                  THEN [us[byEmail] EXCEPT !.googleId = pid, !.isEmailVerified = TRUE]
                  ELSE [us[byEmail] EXCEPT !.facebookId = pid, !.isEmailVerified = TRUE]
        fresh == [NewUser(IF email = "" THEN FacebookEmail(pid) ELSE email, NoPassword)
                     EXCEPT !.googleId = IF provider = "google" THEN pid ELSE Null,
                            !.facebookId = IF provider = "facebook" THEN pid ELSE Null,
                            !.isEmailVerified = (email # "")]
        created == CreateUser(us, fresh, {"email", "isEmailVerified"})
    IN  IF rs = 0
        THEN failed
        ELSE IF byId # 0
        THEN [ok |-> TRUE, users |-> us, uid |-> byId]
        ELSE IF provider = "google" /\ email = ""
        THEN failed
        ELSE IF byEmail # 0
        THEN [ok |-> TRUE,
              users |-> [us EXCEPT ![byEmail] =
                            PreSave(linked, {"isEmailVerified"}, FALSE)],
              uid |-> byEmail]
        ELSE IF created.ok
        THEN [ok |-> TRUE, users |-> created.users, uid |-> Len(created.users)]
        ELSE failed

(* ---------------------- token issuer, request gate -------------------- *)
\* the _id of the mock user of the demo branches: not an ObjectId
DemoId(t) == 0 - t

\* generateTokens: the access token
generateTokens(userId, t) ==
    [kind |-> "access", userId |-> userId, exp |-> t + AccessTokenTtl]

\* generateTokens: the refresh token, signed with the refresh secret
generateRefreshToken(userId, t) ==
    [kind |-> "refresh", userId |-> userId, exp |-> t + RefreshTokenTtl]

\* verifyRefreshToken: signature under the refresh secret, and expiry
verifyRefreshToken(tok, t) == tok.kind = "refresh" /\ tok.exp > t

\* authenticateToken without the check of isActive
authenticateToken_SkipsActive(us, rs, t, tok) ==
    IF tok.kind = "none"
    THEN [admit |-> FALSE, status |-> 401, msg |-> "Access token required", uid |-> 0]
    ELSE IF tok.kind # "access"
    THEN [admit |-> FALSE, status |-> 401, msg |-> "Invalid token", uid |-> 0]
    ELSE IF tok.exp <= t
    THEN [admit |-> FALSE, status |-> 401, msg |-> "Token expired", uid |-> 0]
    ELSE IF tok.userId <= 0 \/ rs = 0
    THEN [admit |-> FALSE, status |-> 500, msg |-> "Authentication error", uid |-> 0]
    ELSE IF tok.userId \notin Ids(us)
    THEN [admit |-> FALSE, status |-> 401, msg |-> "Invalid token - user not found", uid |-> 0]
    ELSE [admit |-> TRUE, status |-> 200, msg |-> "", uid |-> tok.userId]

\* authenticateToken
authenticateToken(us, rs, t, tok) ==
    IF tok.kind = "none"
    THEN [admit |-> FALSE, status |-> 401, msg |-> "Access token required", uid |-> 0]
    ELSE IF tok.kind # "access"
    THEN [admit |-> FALSE, status |-> 401, msg |-> "Invalid token", uid |-> 0]
    ELSE IF tok.exp <= t
    THEN [admit |-> FALSE, status |-> 401, msg |-> "Token expired", uid |-> 0]
    ELSE IF tok.userId <= 0 \/ rs = 0
    THEN [admit |-> FALSE, status |-> 500, msg |-> "Authentication error", uid |-> 0]
    ELSE IF tok.userId \notin Ids(us)
    THEN [admit |-> FALSE, status |-> 401, msg |-> "Invalid token - user not found", uid |-> 0]
    ELSE IF ~us[tok.userId].isActive
    THEN [admit |-> FALSE, status |-> 401, msg |-> MsgDeactivated, uid |-> 0]
    ELSE [admit |-> TRUE, status |-> 200, msg |-> "", uid |-> tok.userId]

\* requireGuest / requireAuth on the identity the gate attached
requireGuest(u) == u.isGuest
requireAuth(u) == ~u.isGuest

\* the paths of a document that hold no value: toObject leaves them out
UnsetFields(u) ==
    {f \in {"lockUntil", "passwordResetToken", "passwordResetExpires",
            "emailVerificationToken", "emailVerificationExpires",
            "googleId", "facebookId"} : u[f] = Null}
    \cup (IF u.password = NoPassword THEN {"password"} ELSE {})

\* user.toObject(): the fields that hold a value and, by the schema's
\* `toObject: { virtuals: true }`, the virtual isLocked
toObject(u, t) ==
    [f \in (DOMAIN u) \ UnsetFields(u) |-> u[f]] @@ [isLocked |-> isLocked(u, t)]

\* the mock user of the demo branches of register and login
DemoUser(email, t) ==
    [id |-> DemoId(t), email |-> email, isEmailVerified |-> TRUE, isActive |-> TRUE]

\* the keys sanitizeUser deletes
SanitizedFields ==
    {"password", "passwordResetToken", "passwordResetExpires",
     "emailVerificationToken", "emailVerificationExpires",
     "loginAttempts", "lockUntil"}

\* sanitizeUser deleting the password only
sanitizeUser_KeepsTokens(obj) ==
    [f \in (DOMAIN obj) \ {"password"} |-> obj[f]]

\* sanitizeUser, on the plain object of a document or of a mock user
sanitizeUser(obj) ==
    [f \in (DOMAIN obj) \ SanitizedFields |-> obj[f]]

(* --------------------------- route handlers --------------------------- *)
\* what a handler answers and leaves in the store
Result(status, msg, us, uid, email, token) ==
    [status |-> status, msg |-> msg, users |-> us, uid |-> uid,
     email |-> email, token |-> token]

\* a store operation while mongoose is disconnected: buffered, then rejected
StoreDown(msg, us) == Result(500, msg, us, 0, "", NoToken)

\* POST /auth/register
RegisterResult(us, t, name, email, password) ==
    IF name = "" \/ email = "" \/ password = ""
    THEN Result(400, "Name, email, and password are required", us, 0, "", NoToken)
    ELSE Result(201, "Demo account created successfully! (MongoDB not connected)",
                us, 0, email, generateTokens(DemoId(t), t))

\* LoginResult answering 403 where the account is locked or deactivated
LoginResult_Forbidden(us, rs, t, emailRaw, password) ==
    IF ~IsEmail(emailRaw) \/ password = ""
    THEN Result(400, MsgValidation, us, 0, "", NoToken)
    ELSE LET email == normalizeEmail(emailRaw) IN
         IF rs = 0
         THEN Result(200, "Demo login successful! (MongoDB not connected)",
                     us, 0, email, generateTokens(DemoId(t), t))
         ELSE LET c == findByCredentials(us, t, email, password) IN
              IF c.ok
              THEN Result(200, c.msg, c.users, c.uid, c.users[c.uid].email,
                          generateTokens(c.uid, t))
              ELSE Result(IF c.msg \in {MsgLocked, MsgDeactivated} THEN 403 ELSE 401,
                          c.msg, c.users, c.uid, "", NoToken)

\* POST /auth/login
LoginResult(us, rs, t, emailRaw, password) ==
    IF ~IsEmail(emailRaw) \/ password = ""
    THEN Result(400, MsgValidation, us, 0, "", NoToken)
    ELSE LET email == normalizeEmail(emailRaw) IN
         IF rs = 0
         THEN Result(200, "Demo login successful! (MongoDB not connected)",
                     us, 0, email, generateTokens(DemoId(t), t))
         ELSE LET c == findByCredentials(us, t, email, password) IN
              IF c.ok
              THEN Result(200, c.msg, c.users, c.uid, c.users[c.uid].email,
                          generateTokens(c.uid, t))
              ELSE Result(401, c.msg, c.users, c.uid, "", NoToken)

\* POST /auth/guest
GuestResult(us, rs, t) ==
    IF rs = 0
    THEN StoreDown("Guest access failed", us)
    ELSE LET c == createGuestUser(us, t) IN
         IF c.ok
         THEN Result(201, "Guest access granted", c.users, Len(c.users),
                     c.users[Len(c.users)].email, generateTokens(Len(c.users), t))
         ELSE Result(500, "Guest access failed", us, 0, "", NoToken)

\* `const sendEmail = require('../utils/email')` binds the exports object
\* { sendEmail, testEmailConfig, emailTemplates }, which is not callable
SendEmailIsFunction == FALSE

\* POST /auth/forgot-password up to `await user.save()`; tok is the token drawn
ForgotPasswordSave(us, rs, t, emailRaw, tok) ==
    IF ~IsEmail(emailRaw)
    THEN Result(400, MsgValidation, us, 0, "", NoToken)
    ELSE IF rs = 0
    THEN StoreDown("Password reset request failed", us)
    ELSE LET id == FindByEmail(us, normalizeEmail(emailRaw)) IN
         IF id = 0
         THEN Result(200, MsgResetSent, us, 0, "", NoToken)
         ELSE Result(0, "", [us EXCEPT ![id] = createPasswordResetToken(us[id], tok, t)],
                     id, "", NoToken)

\* ForgotPasswordSend answering 500 without taking the token back
ForgotPasswordSend_NoRollback(us, req, delivered) ==
    IF SendEmailIsFunction /\ delivered
    THEN Result(200, MsgResetSent, us, req.uid, "", NoToken)
    ELSE Result(500, "Failed to send password reset email", us, req.uid, "", NoToken)

\* POST /auth/forgot-password from `sendEmail(...)` on, for the request `req`;
\* delivered: the transport accepts the message
ForgotPasswordSend(us, req, delivered) ==
    IF SendEmailIsFunction /\ delivered
    THEN Result(200, MsgResetSent, us, req.uid, "", NoToken)
    ELSE Result(500, "Failed to send password reset email",
                [us EXCEPT ![req.uid].passwordResetToken = Null,
                           ![req.uid].passwordResetExpires = Null],
                req.uid, "", NoToken)

\* POST /auth/reset-password
ResetPasswordResult(us, rs, t, tok, password) ==
    IF tok = Null \/ ~IsStrongPassword(password)
    THEN Result(400, MsgValidation, us, 0, "", NoToken)
    ELSE IF rs = 0
    THEN StoreDown("Password reset failed", us)
    ELSE LET id == FindByResetToken(us, Sha256(tok), t) IN
         IF id = 0
         THEN Result(400, MsgResetBadToken, us, 0, "", NoToken)
         ELSE LET doc == [us[id] EXCEPT !.password = Plaintext(password),
                                        !.passwordResetToken = Null,
                                        !.passwordResetExpires = Null]
                  saved == PreSave(doc, {"password", "passwordResetToken",
                                         "passwordResetExpires"}, FALSE)
              IN  Result(200, "Password reset successfully",
                         [us EXCEPT ![id] = saved], id, saved.email,
                         generateTokens(id, t))

\* PUT /users/password, behind authenticateToken
ChangePasswordResult(us, rs, t, token, currentPassword, newPassword) ==
    LET g == authenticateToken(us, rs, t, token) IN
    IF ~g.admit
    THEN Result(g.status, g.msg, us, 0, "", NoToken)
    ELSE IF currentPassword = "" \/ ~IsStrongPassword(newPassword)
    THEN Result(400, MsgValidation, us, g.uid, "", NoToken)
    ELSE IF ~comparePassword(us[g.uid], currentPassword)
    THEN Result(400, "Current password is incorrect", us, g.uid, "", NoToken)
    ELSE LET doc == [us[g.uid] EXCEPT !.password = Plaintext(newPassword)] IN
         Result(200, "Password changed successfully",
                [us EXCEPT ![g.uid] = PreSave(doc, {"password"}, FALSE)],
                g.uid, "", NoToken)

\* POST /users/upgrade-guest, behind authenticateToken; tok is the token drawn
UpgradeGuestResult(us, rs, t, token, name, emailRaw, password, tok) ==
    LET g == authenticateToken(us, rs, t, token) IN
    IF ~g.admit
    THEN Result(g.status, g.msg, us, 0, "", NoToken)
    ELSE IF name = "" \/ ~IsEmail(emailRaw) \/ ~IsStrongPassword(password)
    THEN Result(400, MsgValidation, us, g.uid, "", NoToken)
    ELSE IF ~us[g.uid].isGuest
    THEN Result(400, "Account is already upgraded", us, g.uid, "", NoToken)
    ELSE IF FindByEmail(us, normalizeEmail(emailRaw)) # 0
    THEN Result(400, "Email is already registered", us, g.uid, "", NoToken)
    ELSE IF ~EmailMatchesSchema(normalizeEmail(emailRaw))
    THEN Result(500, "Failed to upgrade account", us, g.uid, "", NoToken)
    ELSE LET updated == [us[g.uid] EXCEPT !.email = normalizeEmail(emailRaw),
                                          !.password = Plaintext(password),
                                          !.isGuest = FALSE,
                                          !.isEmailVerified = FALSE]
             doc == [updated EXCEPT !.emailVerificationToken = Sha256(tok),
                                    !.emailVerificationExpires = t + VerifyTokenTtl]
             saved == PreSave(doc, {"emailVerificationToken",
                                    "emailVerificationExpires"}, FALSE)
         IN  Result(200, "Account upgraded successfully. Please verify your email.",
                    [us EXCEPT ![g.uid] = saved], g.uid, saved.email, NoToken)

\* GET /auth/me, behind authenticateToken
MeResult(us, rs, t, token) ==
    LET g == authenticateToken(us, rs, t, token) IN
    IF ~g.admit
    THEN Result(g.status, g.msg, us, 0, "", NoToken)
    ELSE Result(200, "", us, g.uid, us[g.uid].email, NoToken)

\* DELETE /users/account, behind authenticateToken
DeleteAccountResult(us, rs, t, token, password) ==
    LET g == authenticateToken(us, rs, t, token) IN
    IF ~g.admit
    THEN Result(g.status, g.msg, us, 0, "", NoToken)
    ELSE IF password = ""
    THEN Result(400, MsgValidation, us, g.uid, "", NoToken)
    ELSE IF ~comparePassword(us[g.uid], password)
    THEN Result(400, "Password is incorrect", us, g.uid, "", NoToken)
    ELSE LET doc == [us[g.uid] EXCEPT !.isActive = FALSE] IN
         Result(200, "Account deactivated successfully",
                [us EXCEPT ![g.uid] = PreSave(doc, {"isActive"}, FALSE)],
                g.uid, "", NoToken)

\* RefreshResult that looks the account up but does not read isActive
RefreshResult_IgnoresActive(us, rs, t, tok) ==
    LET refused(msg) == Result(401, msg, us, 0, "", NoToken) @@ [refresh |-> NoToken] IN
    IF tok.kind = "none"
    THEN refused("Refresh token required")
    ELSE IF ~verifyRefreshToken(tok, t)
    THEN refused("Invalid refresh token")
    ELSE IF tok.userId <= 0 \/ rs = 0
    THEN refused("Invalid refresh token")
    ELSE IF tok.userId \notin Ids(us)
    THEN refused("Invalid refresh token")
    ELSE Result(200, "Token refreshed successfully", us, tok.userId, "",
                generateTokens(tok.userId, t))
            @@ [refresh |-> generateRefreshToken(tok.userId, t)]

\* POST /auth/refresh; the answer carries the new refresh token next to the
\* access token
RefreshResult(us, rs, t, tok) ==
    LET refused(msg) == Result(401, msg, us, 0, "", NoToken) @@ [refresh |-> NoToken] IN
    IF tok.kind = "none"
    THEN refused("Refresh token required")
    ELSE IF ~verifyRefreshToken(tok, t)
    THEN refused("Invalid refresh token")
    ELSE IF tok.userId <= 0 \/ rs = 0
    THEN refused("Invalid refresh token")
    ELSE IF tok.userId \notin Ids(us) \/ ~us[tok.userId].isActive
    THEN refused("Invalid refresh token")
    ELSE Result(200, "Token refreshed successfully", us, tok.userId, "",
                generateTokens(tok.userId, t))
            @@ [refresh |-> generateRefreshToken(tok.userId, t)]

\* LogoutResult that revokes server-side by closing the account's sessions
LogoutResult_Revokes(us, rs, t, token) ==
    LET g == authenticateToken(us, rs, t, token) IN
    IF ~g.admit
    THEN Result(g.status, g.msg, us, 0, "", NoToken)
    ELSE Result(200, "Logout successful",
                [us EXCEPT ![g.uid].isActive = FALSE], g.uid, "", NoToken)

\* POST /auth/logout, behind authenticateToken
LogoutResult(us, rs, t, token) ==
    LET g == authenticateToken(us, rs, t, token) IN
    IF ~g.admit
    THEN Result(g.status, g.msg, us, 0, "", NoToken)
    ELSE Result(200, "Logout successful", us, g.uid, "", NoToken)

\* GET /auth/google/callback, GET /auth/facebook/callback
OAuthCallbackResult(us, rs, t, provider, pid, email) ==
    LET v == OAuthVerify(us, rs, provider, pid, email) IN
    IF v.ok
    THEN Result(302, "auth/callback", v.users, v.uid, v.users[v.uid].email,
                generateTokens(v.uid, t))
    ELSE Result(500, "oauth error", us, 0, "", NoToken)

\* GET /auth/verify-email
VerifyEmailResult(us, rs, t, tok) ==
    IF tok = Null
    THEN Result(400, "Verification token required", us, 0, "", NoToken)
    ELSE IF rs = 0
    THEN StoreDown("Email verification failed", us)
    ELSE LET id == FindByVerificationToken(us, Sha256(tok), t) IN
         IF id = 0
         THEN Result(400, "Invalid or expired verification token", us, 0, "", NoToken)
         ELSE LET doc == [us[id] EXCEPT !.isEmailVerified = TRUE,
                                        !.emailVerificationToken = Null,
                                        !.emailVerificationExpires = Null]
              IN  Result(200, "Email verified successfully",
                         [us EXCEPT ![id] = PreSave(doc, {"isEmailVerified",
                              "emailVerificationToken", "emailVerificationExpires"}, FALSE)],
                         id, "", NoToken)

(* ------------------------------ the system ---------------------------- *)
\* scripts/seed.js: `new User(userData).save()` for a sample user
SeedUsers == << PreSave(NewUser(SeedEmail, Plaintext(SeedPassword)), {"password"}, TRUE) >>

Init ==
    /\ readyState \in {0, 1}
    /\ users = IF readyState = 1 THEN SeedUsers ELSE << >>
    /\ now = 1
    /\ resp = NoResp
    /\ issued = {}
    /\ pending = {}
    /\ nextTok = 1
    /\ redeemed = {}
    /\ rolledBack = {}
    /\ closed = {}
    /\ logins = {}
    /\ categories = {}
    /\ nextCat = 1
    /\ txs = {}
    /\ nextTx = 1
    /\ offlineQueue = << >>
    /\ syncRuns = {}
    /\ nextItem = 1
    /\ createdCount = [i \in {} |-> 0]
    /\ clientToken = NoToken
    /\ sessionToken = NoToken
    /\ recurring = {}
    /\ day = 1
    /\ nextRec = 1

\* Tokens are stateless and signed: a client can present exactly the tokens
\* the issuer has handed out.  `issued` records for whom (0: a demo user);
\* the time of issue is not recorded, the token is presented as issued last.
Holder(tok) == IF tok.userId > 0 THEN tok.userId ELSE 0

Presentable ==
    {NoToken} \cup
    {generateTokens(IF id = 0 THEN DemoId(now) ELSE id, now) : id \in issued}

\* the response goes out; tok is the reset token the request was about, if any;
\* lockExpired: the request found a lock on its account that had run out
Respond(op, r, tok) ==
    /\ resp' = [op |-> op, status |-> r.status, msg |-> r.msg, uid |-> r.uid,
                tok |-> tok,
                lockExpired |-> /\ r.uid \in Ids(users)
                                /\ users[r.uid].lockUntil # Null
                                /\ users[r.uid].lockUntil < now]
    /\ issued' = IF r.token.kind = "none" THEN issued ELSE issued \cup {Holder(r.token)}

Register(name, email, password) ==
    LET r == RegisterResult(users, now, name, email, password) IN
    /\ Respond("register", r, 0)
    /\ UNCHANGED <<users, now, readyState, pending, nextTok, redeemed, rolledBack, closed, others>>

Login(email, password) ==
    LET r == LoginResult(users, readyState, now, email, password) IN
    /\ users' = r.users
    /\ Respond("login", r, 0)
    /\ UNCHANGED <<now, readyState, pending, nextTok, redeemed, rolledBack, closed, others>>

Guest ==
    LET r == GuestResult(users, readyState, now) IN
    /\ users' = r.users
    /\ Respond("guest", r, 0)
    /\ UNCHANGED <<now, readyState, pending, nextTok, redeemed, rolledBack, closed, others>>

\* forgot-password runs up to its first store write and then waits for the mailer
ForgotPasswordBegin(email) ==
    LET r == ForgotPasswordSave(users, readyState, now, email, nextTok) IN
    IF r.status = 0
    THEN /\ nextTok <= MaxTokens
         /\ Cardinality(pending) < MaxPending
         /\ users' = r.users
         /\ pending' = pending \cup {[uid |-> r.uid, tok |-> nextTok]}
         /\ nextTok' = nextTok + 1
         /\ UNCHANGED <<now, readyState, resp, issued, redeemed, rolledBack, closed, others>>
    ELSE /\ Respond("forgot-password", r, 0)
         /\ UNCHANGED <<users, now, readyState, pending, nextTok, redeemed, rolledBack, closed, others>>

\* the mailer call of a waiting forgot-password request returns or throws
ForgotPasswordEnd(req, delivered) ==
    LET r == ForgotPasswordSend(users, req, delivered) IN
    /\ req \in pending
    /\ users' = r.users
    /\ pending' = pending \ {req}
    /\ rolledBack' = IF r.status = 200 THEN rolledBack ELSE rolledBack \cup {req.tok}
    /\ Respond("forgot-password", r, req.tok)
    /\ UNCHANGED <<now, readyState, nextTok, redeemed, closed, others>>

ResetPassword(tok, password) ==
    LET r == ResetPasswordResult(users, readyState, now, tok, password) IN
    /\ users' = r.users
    /\ redeemed' = IF r.status = 200 THEN redeemed \cup {tok} ELSE redeemed
    /\ Respond("reset-password", r, tok)
    /\ UNCHANGED <<now, readyState, pending, nextTok, rolledBack, closed, others>>

ChangePassword(token, currentPassword, newPassword) ==
    LET r == ChangePasswordResult(users, readyState, now, token,
                                  currentPassword, newPassword) IN
    /\ users' = r.users
    /\ Respond("change-password", r, 0)
    /\ UNCHANGED <<now, readyState, pending, nextTok, redeemed, rolledBack, closed, others>>

UpgradeGuest(token, name, email, password) ==
    LET r == UpgradeGuestResult(users, readyState, now, token, name, email,
                                password, nextTok) IN
    /\ r.status = 200 => nextTok <= MaxTokens
    /\ users' = r.users
    /\ nextTok' = IF r.status = 200 THEN nextTok + 1 ELSE nextTok
    /\ Respond("upgrade-guest", r, 0)
    /\ UNCHANGED <<now, readyState, pending, redeemed, rolledBack, closed, others>>

Me(token) ==
    LET r == MeResult(users, readyState, now, token) IN
    /\ Respond("me", r, 0)
    /\ UNCHANGED <<users, now, readyState, pending, nextTok, redeemed, rolledBack, closed, others>>

DeleteAccount(token, password) ==
    LET r == DeleteAccountResult(users, readyState, now, token, password) IN
    /\ users' = r.users
    /\ closed' = IF r.status = 200 THEN closed \cup {r.uid} ELSE closed
    /\ Respond("delete-account", r, 0)
    /\ UNCHANGED <<now, readyState, pending, nextTok, redeemed, rolledBack, others>>

Refresh(tok) ==
    LET r == RefreshResult(users, readyState, now, tok) IN
    /\ Respond("refresh", r, 0)
    /\ UNCHANGED <<users, now, readyState, pending, nextTok, redeemed, rolledBack, closed, others>>

Logout(token) ==
    LET r == LogoutResult(users, readyState, now, token) IN
    /\ users' = r.users
    /\ Respond("logout", r, 0)
    /\ UNCHANGED <<now, readyState, pending, nextTok, redeemed, rolledBack, closed, others>>

OAuthCallback(provider, pid, email) ==
    LET r == OAuthCallbackResult(users, readyState, now, provider, pid, email) IN
    /\ users' = r.users
    /\ Respond("oauth", r, 0)
    /\ UNCHANGED <<now, readyState, pending, nextTok, redeemed, rolledBack, closed, others>>

VerifyEmail(tok) ==
    LET r == VerifyEmailResult(users, readyState, now, tok) IN
    /\ users' = r.users
    /\ Respond("verify-email", r, tok)
    /\ UNCHANGED <<now, readyState, pending, nextTok, redeemed, rolledBack, closed, others>>

Tick ==
    /\ now < MaxClock
    /\ now' = now + 1
    /\ UNCHANGED <<users, readyState, resp, issued, pending, nextTok, redeemed, rolledBack, closed, others>>

\* the refresh tokens a client can present: those handed out with `issued`
PresentableRefresh ==
    {NoToken} \cup
    {generateRefreshToken(IF id = 0 THEN DemoId(now) ELSE id, now) : id \in issued}

\* `data.user` of a 2xx answer r of register, login, guest, reset-password, me,
\* profile, preferences or upgrade-guest: sanitizeUser of the document the
\* handler holds, or of the mock user where the handler built one
BodyUser(r, t) ==
    IF r.uid \in Ids(r.users)
    THEN sanitizeUser(toObject(r.users[r.uid], t))
    ELSE sanitizeUser(DemoUser(r.email, t))

(* Login as the event loop runs it: findByCredentials awaits findOne, then
   comparePassword, then its write, and other requests run in between. *)

\* doc.incLoginAttempts(): the update is chosen from the document as it was
\* read and applied by updateOne to the document as it is stored
incLoginAttemptsOn(stored, doc, t) ==
    IF doc.lockUntil # Null /\ doc.lockUntil < t
    THEN [stored EXCEPT !.lockUntil = Null, !.loginAttempts = 1]
    ELSE IF doc.loginAttempts + 1 >= MaxLoginAttempts /\ ~isLocked(doc, t)
         THEN [stored EXCEPT !.loginAttempts = @ + 1, !.lockUntil = t + LockTime]
         ELSE [stored EXCEPT !.loginAttempts = @ + 1]

\* POST /auth/login up to `await user.comparePassword(password)`: a request
\* refused before the password check is answered at once, any other is in
\* flight, in slot n, with the document it read
LoginBegin(emailRaw, password) ==
    LET id == FindByEmail(users, normalizeEmail(emailRaw))
        checked == /\ IsEmail(emailRaw) /\ password # "" /\ readyState = 1
                   /\ id # 0 /\ ~isLocked(users[id], now) /\ users[id].isActive
    IN  IF checked
        THEN /\ Cardinality(logins) < MaxLogins
             /\ logins' = logins \cup
                    {[n |-> CHOOSE k \in 1..MaxLogins : \A q \in logins : q.n # k,
                      uid |-> id, doc |-> users[id],
                      ok |-> comparePassword(users[id], password)]}
             /\ UNCHANGED <<users, now, readyState, resp, issued, pending, nextTok,
                            redeemed, rolledBack, closed, ledger,
                   client, sweep>>
        ELSE LET r == LoginResult(users, readyState, now, emailRaw, password) IN
             /\ users' = r.users
             /\ Respond("login", r, 0)
             /\ UNCHANGED <<now, readyState, pending, nextTok, redeemed, rolledBack,
                            closed, others>>

\* POST /auth/login from the outcome of comparePassword on, for the request req
LoginEnd(req) ==
    LET r == IF req.ok
             THEN Result(200, "Login successful",
                         IF req.doc.loginAttempts > 0
                         THEN [users EXCEPT ![req.uid] = resetLoginAttempts(users[req.uid])]
                         ELSE users,
                         req.uid, users[req.uid].email, generateTokens(req.uid, now))
             ELSE Result(401, MsgInvalidCredentials,
                         [users EXCEPT ![req.uid] =
                             incLoginAttemptsOn(users[req.uid], req.doc, now)],
                         req.uid, "", NoToken)
    IN  /\ logins' = logins \ {req}
        /\ users' = r.users
        /\ Respond("login", r, 0)
        /\ UNCHANGED <<now, readyState, pending, nextTok, redeemed, rolledBack, closed,
                       ledger,
                   client, sweep>>

\* the caller of a request bearing `token` (0: the gate refuses it)
Caller(token) == authenticateToken(users, readyState, now, token).uid

(* ------------------------------ categories ---------------------------- *)
\* two of the fourteen documents of statics.getDefaultCategories
DefaultCategoryNames == <<"Food & Dining", "Salary">>

\* names a request can carry
CategoryNames == {"Food & Dining", "Pets"}

\* a category's _id as a request or a transaction spells it
CatRef(id) == "cat" \o ToString(id)

\* a document as the Category schema builds it
NewCategory(id, name, isDefault) ==
    [id |-> id, name |-> name, isDefault |-> isDefault, isActive |-> TRUE]

\* the keys categorySchemas.update allows; Joi refuses any other key
UpdateKeys == {"name", "icon", "color", "type", "description", "isActive"}

\* bodies a client can send to PUT /categories/:id
UpdateBodies ==
    {[name |-> n] : n \in CategoryNames}
    \cup {[isActive |-> b] : b \in BOOLEAN}
    \cup {[name |-> n, isActive |-> b] : n \in CategoryNames, b \in BOOLEAN}
    \cup {[isDefault |-> b] : b \in BOOLEAN}

FindCategory(cats, id) == {c \in cats : c.id = id}

\* what a category handler answers and leaves in the collection
CatResult(status, msg, cats) == [status |-> status, msg |-> msg, cats |-> cats]

\* statics.initializeDefaults: inserts the defaults into an empty collection
initializeDefaults(cats, next) ==
    IF cats = {}
    THEN {NewCategory(next + i - 1, DefaultCategoryNames[i], TRUE) :
             i \in 1..Len(DefaultCategoryNames)}
    ELSE cats

\* POST /categories
CreateCategoryResult(cats, next, name) ==
    IF name = ""
    THEN CatResult(400, "Validation error", cats)
    ELSE IF \E c \in cats : c.name = name /\ c.isActive
    THEN CatResult(400, "Category with this name already exists", cats)
    ELSE IF \E c \in cats : c.name = name
    THEN CatResult(500, "Failed to create category", cats)
    ELSE CatResult(201, "Category created successfully",
                   cats \cup {NewCategory(next, name, FALSE)})

\* PUT /categories/:id, after validate(categorySchemas.update)
UpdateCategoryResult(cats, id, body) ==
    IF ~(DOMAIN body \subseteq UpdateKeys)
    THEN CatResult(400, "Validation error", cats)
    ELSE IF FindCategory(cats, id) = {}
    THEN CatResult(404, "Category not found", cats)
    ELSE LET category == CHOOSE c \in cats : c.id = id
             renamed == "name" \in DOMAIN body /\ body.name # category.name
         IN  IF renamed /\ \E c \in cats : c.name = body.name /\ c.id # id /\ c.isActive
             THEN CatResult(400, "Category with this name already exists", cats)
             ELSE IF renamed /\ \E c \in cats : c.name = body.name /\ c.id # id
             THEN CatResult(500, "Failed to update category", cats)
             ELSE CatResult(200, "Category updated successfully",
                            (cats \ {category}) \cup
                            {[f \in DOMAIN category |->
                                 IF f \in DOMAIN body THEN body[f] ELSE category[f]]})

\* DELETE /categories/:id
DeleteCategoryResult(cats, ts, id) ==
    IF FindCategory(cats, id) = {}
    THEN CatResult(404, "Category not found", cats)
    ELSE LET category == CHOOSE c \in cats : c.id = id IN
         IF category.isDefault
         THEN CatResult(400, "Default categories cannot be deleted", cats)
         ELSE IF \E x \in ts : x.category = CatRef(id)
         THEN CatResult(400, "Cannot delete category with transactions. Deactivate instead.",
                        cats)
         ELSE CatResult(200, "Category deleted successfully", cats \ {category})

\* PATCH /categories/:id/deactivate
DeactivateCategoryResult(cats, id) ==
    IF FindCategory(cats, id) = {}
    THEN CatResult(404, "Category not found", cats)
    ELSE LET category == CHOOSE c \in cats : c.id = id IN
         IF category.isDefault
         THEN CatResult(400, "Default categories cannot be deactivated", cats)
         ELSE CatResult(200, "Category deactivated successfully",
                        (cats \ {category}) \cup {[category EXCEPT !.isActive = FALSE]})

\* PATCH /categories/:id/activate
ActivateCategoryResult(cats, id) ==
    IF FindCategory(cats, id) = {}
    THEN CatResult(404, "Category not found", cats)
    ELSE LET category == CHOOSE c \in cats : c.id = id IN
         CatResult(200, "Category activated successfully",
                   (cats \ {category}) \cup {[category EXCEPT !.isActive = TRUE]})

\* a category route behind `authenticate`: refused by the gate, or answered
\* by the handler with r
CategoryStep(op, token, r) ==
    LET g == authenticateToken(users, readyState, now, token) IN
    /\ categories' = IF g.admit THEN r.cats ELSE categories
    /\ Respond(op, IF g.admit
                   THEN Result(r.status, r.msg, users, g.uid, "", NoToken)
                   ELSE Result(g.status, g.msg, users, 0, "", NoToken), 0)

InitializeCategories(token) ==
    LET cats == initializeDefaults(categories, nextCat)
        inserts == Caller(token) # 0 /\ categories = {}
    IN
    /\ inserts => nextCat + Len(DefaultCategoryNames) - 1 <= MaxCats
    /\ CategoryStep("categories-initialize",
                    token, CatResult(200, "Default categories initialized", cats))
    /\ nextCat' = IF inserts THEN nextCat + Len(DefaultCategoryNames) ELSE nextCat
    /\ UNCHANGED <<users, now, readyState, pending, nextTok, redeemed, rolledBack, closed,
                   logins, txs, nextTx,
                   client, sweep>>

CreateCategory(token, name) ==
    LET r == CreateCategoryResult(categories, nextCat, name)
        g == authenticateToken(users, readyState, now, token)
    IN  /\ (g.admit /\ r.status = 201) => nextCat <= MaxCats
        /\ CategoryStep("categories-create", token, r)
        /\ nextCat' = IF g.admit /\ r.status = 201 THEN nextCat + 1 ELSE nextCat
        /\ UNCHANGED <<users, now, readyState, pending, nextTok, redeemed, rolledBack,
                       closed, logins, txs, nextTx,
                   client, sweep>>

UpdateCategory(token, id, body) ==
    /\ CategoryStep("categories-update", token, UpdateCategoryResult(categories, id, body))
    /\ UNCHANGED <<users, now, readyState, pending, nextTok, redeemed, rolledBack, closed,
                   logins, nextCat, txs, nextTx,
                   client, sweep>>

DeleteCategory(token, id) ==
    /\ CategoryStep("categories-delete", token, DeleteCategoryResult(categories, txs, id))
    /\ UNCHANGED <<users, now, readyState, pending, nextTok, redeemed, rolledBack, closed,
                   logins, nextCat, txs, nextTx,
                   client, sweep>>

DeactivateCategory(token, id) ==
    /\ CategoryStep("categories-deactivate", token, DeactivateCategoryResult(categories, id))
    /\ UNCHANGED <<users, now, readyState, pending, nextTok, redeemed, rolledBack, closed,
                   logins, nextCat, txs, nextTx,
                   client, sweep>>

ActivateCategory(token, id) ==
    /\ CategoryStep("categories-activate", token, ActivateCategoryResult(categories, id))
    /\ UNCHANGED <<users, now, readyState, pending, nextTok, redeemed, rolledBack, closed,
                   logins, nextCat, txs, nextTx,
                   client, sweep>>

(* ----------------------------- transactions --------------------------- *)
Amounts == {10, 20}

\* what a request can put into a transaction's category: a name, or the _id
\* of the first category created after the defaults
TxCategories == {"Food & Dining", CatRef(Len(DefaultCategoryNames) + 1)}

\* the accounts a request body can name
BodyUsers == 1..2

\* bodies a client can send to POST /transactions: the validated fields and,
\* since nothing strips the rest, any other key of the schema
CreateBodies ==
    {[amount |-> a, category |-> c] : a \in Amounts, c \in TxCategories}
    \cup {[amount |-> a, category |-> c, user |-> u] :
             a \in Amounts, c \in TxCategories, u \in BodyUsers}

\* bodies a client can send to PUT /transactions/:id: every field is optional
UpdateTxBodies ==
    {[amount |-> a] : a \in Amounts}
    \cup {[user |-> u] : u \in BodyUsers}
    \cup {[amount |-> a, user |-> u] : a \in Amounts, u \in BodyUsers}

\* what a transaction handler answers, returns and leaves in the collection
TxResult(status, msg, ts, found) ==
    [status |-> status, msg |-> msg, ts |-> ts, found |-> found]

\* POST /transactions: { ...req.body, user: req.user._id }
CreateTransactionResult(ts, next, caller, body) ==
    LET transactionData == [f \in (DOMAIN body) \cup {"user"} |->
                               IF f = "user" THEN caller ELSE body[f]]
        transaction == [id |-> next, user |-> transactionData.user,
                        amount |-> transactionData.amount,
                        category |-> transactionData.category]
    IN  TxResult(201, "Transaction created successfully", ts \cup {transaction},
                 {transaction})

\* GET /transactions/:id: findOne({ _id, user: req.user._id })
GetTransactionResult(ts, caller, id) ==
    LET found == {x \in ts : x.id = id /\ x.user = caller} IN
    IF found = {}
    THEN TxResult(404, "Transaction not found", ts, {})
    ELSE TxResult(200, "", ts, found)

\* PUT /transactions/:id: findOneAndUpdate({ _id, user: req.user._id }, req.body)
UpdateTransactionResult(ts, caller, id, body) ==
    LET found == {x \in ts : x.id = id /\ x.user = caller} IN
    IF found = {}
    THEN TxResult(404, "Transaction not found", ts, {})
    ELSE LET old == CHOOSE x \in found : TRUE
             new == [f \in DOMAIN old |-> IF f \in DOMAIN body THEN body[f] ELSE old[f]]
         IN  TxResult(200, "Transaction updated successfully",
                      (ts \ {old}) \cup {new}, {new})

\* DELETE /transactions/:id: findOneAndDelete({ _id, user: req.user._id })
DeleteTransactionResult(ts, caller, id) ==
    LET found == {x \in ts : x.id = id /\ x.user = caller} IN
    IF found = {}
    THEN TxResult(404, "Transaction not found", ts, {})
    ELSE TxResult(200, "Transaction deleted successfully", ts \ found, {})

\* a transaction route, mounted behind authenticateToken: refused by the gate,
\* or answered by the handler, which sees the caller the gate admitted
TxStep(op, token, r) ==
    LET g == authenticateToken(users, readyState, now, token) IN
    /\ txs' = IF g.admit THEN r.ts ELSE txs
    /\ Respond(op, IF g.admit
                   THEN Result(r.status, r.msg, users, g.uid, "", NoToken)
                   ELSE Result(g.status, g.msg, users, 0, "", NoToken), 0)

CreateTransaction(token, body) ==
    /\ Caller(token) # 0 => nextTx <= MaxTx
    /\ TxStep("transactions-create", token,
              CreateTransactionResult(txs, nextTx, Caller(token), body))
    /\ nextTx' = IF Caller(token) # 0 THEN nextTx + 1 ELSE nextTx
    /\ UNCHANGED <<users, now, readyState, pending, nextTok, redeemed, rolledBack, closed,
                   logins, categories, nextCat,
                   client, sweep>>

GetTransaction(token, id) ==
    /\ TxStep("transactions-get", token, GetTransactionResult(txs, Caller(token), id))
    /\ UNCHANGED <<users, now, readyState, pending, nextTok, redeemed, rolledBack, closed,
                   logins, categories, nextCat, nextTx,
                   client, sweep>>

UpdateTransaction(token, id, body) ==
    /\ TxStep("transactions-update", token,
              UpdateTransactionResult(txs, Caller(token), id, body))
    /\ UNCHANGED <<users, now, readyState, pending, nextTok, redeemed, rolledBack, closed,
                   logins, categories, nextCat, nextTx,
                   client, sweep>>

DeleteTransaction(token, id) ==
    /\ TxStep("transactions-delete", token,
              DeleteTransactionResult(txs, Caller(token), id))
    /\ UNCHANGED <<users, now, readyState, pending, nextTok, redeemed, rolledBack, closed,
                   logins, categories, nextCat, nextTx,
                   client, sweep>>

(* ------------------------------ API client ---------------------------- *)
\* the frame of a client step that sends no login, register or logout
ClientFrame ==
    UNCHANGED <<users, now, readyState, resp, issued, pending, nextTok, redeemed,
                rolledBack, closed, logins, ledger, clientToken, sessionToken, sweep>>

Range(q) == {q[i] : i \in 1..Len(q)}

\* queueOfflineTransaction: push onto the queue read from localStorage
queueOfflineTransaction(queue, item) == Append(queue, item)

\* createTransaction for a transaction the user enters; ok: the request
\* reaches the backend and is answered 2xx, which creates it there once
ClientCreateTransaction(ok) ==
    /\ nextItem <= MaxItems
    /\ ~ok => Len(offlineQueue) < MaxQueueLen
    /\ nextItem' = nextItem + 1
    /\ createdCount' = createdCount @@ (nextItem :> IF ok THEN 1 ELSE 0)
    /\ offlineQueue' = IF ok THEN offlineQueue
                       ELSE queueOfflineTransaction(offlineQueue, nextItem)
    /\ UNCHANGED syncRuns
    /\ ClientFrame

\* an 'online' event: syncOfflineData reads the queue and, at its first
\* `await`, leaves the first request in flight; with nothing queued it runs
\* through to its removeItem without a pause
SyncBegin ==
    /\ Cardinality(syncRuns) < MaxSyncs
    /\ IF offlineQueue = << >>
       THEN UNCHANGED <<offlineQueue, syncRuns>>
       ELSE /\ syncRuns' = syncRuns \cup
                  {[n |-> CHOOSE k \in 1..MaxSyncs : \A r \in syncRuns : r.n # k,
                    queue |-> offlineQueue, pos |-> 1]}
            /\ UNCHANGED offlineQueue
    /\ UNCHANGED <<nextItem, createdCount>>
    /\ ClientFrame

\* `await this.createTransaction(t)` returns in the loop of syncOfflineData:
\* on failure createTransaction has queued t again and returned normally; the
\* loop sends the next request, or after the last one goes on to
\* localStorage.removeItem on the queue
SyncCreate(run, ok) ==
    LET item == run.queue[run.pos]
        last == run.pos = Len(run.queue)
    IN
    /\ IF ok
       THEN /\ createdCount[item] < MaxCopies
            /\ createdCount' = [createdCount EXCEPT ![item] = @ + 1]
            /\ offlineQueue' = IF last THEN << >> ELSE offlineQueue
       ELSE /\ Len(offlineQueue) < MaxQueueLen
            /\ offlineQueue' = IF last THEN << >>
                               ELSE queueOfflineTransaction(offlineQueue, item)
            /\ UNCHANGED createdCount
    /\ syncRuns' = IF last THEN syncRuns \ {run}
                   ELSE (syncRuns \ {run}) \cup {[run EXCEPT !.pos = @ + 1]}
    /\ UNCHANGED nextItem
    /\ ClientFrame

\* the body of a successful answer of POST /auth/login and /auth/register
AuthBody(r, t) ==
    [status |-> "success", message |-> r.msg,
     data |-> [user |-> r.email,
               tokens |-> [accessToken |-> r.token,
                           refreshToken |-> generateRefreshToken(r.token.userId, t)]]]

\* `response.data.token` as login and register read it: undefined where the
\* object has no such key
dataToken(body) ==
    IF "token" \in DOMAIN body.data THEN body.data.token ELSE NoToken

\* `if (response.data.token) this.setToken(response.data.token)`
setTokenFrom(token, body) ==
    IF dataToken(body) # NoToken THEN dataToken(body) ELSE token

\* makeRequest: the Authorization header of a request
Authorization(token) ==
    IF token # NoToken THEN [scheme |-> "Bearer", token |-> token]
    ELSE [scheme |-> "none", token |-> NoToken]

\* the frame of login, register, logout and getCurrentUser of the client
SessionFrame ==
    UNCHANGED <<now, readyState, pending, nextTok, redeemed, rolledBack, closed,
                logins, ledger, offlineQueue, syncRuns, nextItem, createdCount, sweep>>

\* login(credentials): makeRequest throws on an answer that is not 2xx
ClientLogin(email, password) ==
    LET r == LoginResult(users, readyState, now, email, password)
        ok == r.status = 200
    IN
    /\ users' = r.users
    /\ Respond("login", r, 0)
    /\ clientToken' = IF ok THEN setTokenFrom(clientToken, AuthBody(r, now)) ELSE clientToken
    /\ sessionToken' = IF ok THEN r.token ELSE sessionToken
    /\ SessionFrame

\* register(userData)
ClientRegister(name, email, password) ==
    LET r == RegisterResult(users, now, name, email, password)
        ok == r.status = 201
    IN
    /\ Respond("register", r, 0)
    /\ clientToken' = IF ok THEN setTokenFrom(clientToken, AuthBody(r, now)) ELSE clientToken
    /\ sessionToken' = IF ok THEN r.token ELSE sessionToken
    /\ UNCHANGED users
    /\ SessionFrame

\* getCurrentUser(): a later makeRequest, with the header makeRequest builds
ClientGetCurrentUser ==
    LET r == MeResult(users, readyState, now, Authorization(clientToken).token) IN
    /\ Respond("me", r, 0)
    /\ UNCHANGED <<users, clientToken, sessionToken>>
    /\ SessionFrame

\* logout(): the request, and clearToken() whatever its outcome
ClientLogout ==
    LET r == LogoutResult(users, readyState, now, Authorization(clientToken).token) IN
    /\ users' = r.users
    /\ Respond("logout", r, 0)
    /\ clientToken' = NoToken
    /\ sessionToken' = NoToken
    /\ SessionFrame

(* ------------------------ recurring transactions ---------------------- *)
\* recurringPattern.interval of a 'daily' pattern
Intervals == 1..2

\* recurringPattern.endDate: unset, or a day
EndDates == {Null, 3}

\* updateNextDueDate, frequency 'daily'
updateNextDueDate(doc) ==
    IF ~doc.isRecurring THEN doc
    ELSE [doc EXCEPT !.nextDueDate =
              (IF @ # Null THEN @ ELSE doc.date) + doc.interval]

\* generateNextRecurring: none, or the new document, which takes the pattern
\* as it stands and the schema's default status
generateNextRecurring(doc, id) ==
    IF ~doc.isRecurring THEN {}
    ELSE IF doc.endDate # Null /\ doc.nextDueDate > doc.endDate THEN {}
    ELSE {[id |-> id, date |-> doc.nextDueDate, isRecurring |-> doc.isRecurring,
           interval |-> doc.interval, endDate |-> doc.endDate,
           nextDueDate |-> doc.nextDueDate, status |-> "active",
           root |-> doc.root]}

\* the documents processRecurringTransactions finds due today
dueTransactions(docs, today) ==
    {d \in docs : d.isRecurring /\ d.nextDueDate = today /\ d.status = "active"}

\* those of them for which generateNextRecurring returns a document
Generating(docs, today) ==
    {d \in dueTransactions(docs, today) : generateNextRecurring(d, 0) # {}}

\* the _id of the document generated from d, the loop taking them in order
NewId(docs, today, next, d) ==
    next + Cardinality({e \in Generating(docs, today) : e.id < d.id})

\* processRecurringTransactions: every generating document is saved with its
\* next due date moved on (no new document, so the save hook moves nothing),
\* and insertMany stores the new documents as they are, without a save hook
processRecurringTransactions(docs, today, next) ==
    LET gen == Generating(docs, today) IN
    (docs \ gen)
    \cup {updateNextDueDate(d) : d \in gen}
    \cup UNION {generateNextRecurring(d, NewId(docs, today, next, d)) : d \in gen}

\* the frame of the steps on recurring transactions
SweepFrame ==
    UNCHANGED <<users, now, readyState, resp, issued, pending, nextTok, redeemed,
                rolledBack, closed, logins, ledger, client>>

\* a user's recurring transaction is saved: the hook of a new document sets
\* its first due date
CreateRecurring(interval, endDate, status) ==
    /\ Cardinality({d \in recurring : d.root = d.id}) < MaxRoots
    /\ Cardinality(recurring) < MaxDocs
    /\ recurring' = recurring \cup
           {updateNextDueDate([id |-> nextRec, date |-> day, isRecurring |-> TRUE,
                               interval |-> interval, endDate |-> endDate,
                               nextDueDate |-> Null, status |-> status,
                               root |-> nextRec])}
    /\ nextRec' = nextRec + 1
    /\ UNCHANGED day
    /\ SweepFrame

\* one run of the sweep
ProcessRecurring ==
    /\ Cardinality(recurring) + Cardinality(Generating(recurring, day)) <= MaxDocs
    /\ recurring' = processRecurringTransactions(recurring, day, nextRec)
    /\ nextRec' = nextRec + Cardinality(Generating(recurring, day))
    /\ UNCHANGED day
    /\ SweepFrame

\* midnight
NextDay ==
    /\ day < MaxDay
    /\ day' = day + 1
    /\ UNCHANGED <<recurring, nextRec>>
    /\ SweepFrame

(* Views of the system, each with the requests its claims are about. *)

\* sessions: register, login, the gate, and the passing of time
NextLogin ==
    \/ \E n \in Names, e \in Emails, p \in Passwords : Register(n, e, p)
    \/ \E e \in Emails, p \in Passwords : Login(e, p)
    \/ \E k \in Presentable : Me(k)
    \/ Tick

SpecLogin == Init /\ [][NextLogin]_vars

\* every request that writes a credential or a reset token, and time
NextReset ==
    \/ Guest
    \/ \E e \in Emails : ForgotPasswordBegin(e)
    \/ \E req \in pending, d \in BOOLEAN : ForgotPasswordEnd(req, d)
    \/ \E tok \in 0..MaxTokens, p \in Passwords : ResetPassword(tok, p)
    \/ \E k \in Presentable, c \in Passwords, p \in Passwords : ChangePassword(k, c, p)
    \/ \E k \in Presentable, n \in Names, e \in Emails, p \in Passwords :
           UpgradeGuest(k, n, e, p)
    \/ \E tok \in 0..MaxTokens : VerifyEmail(tok)
    \/ Tick

SpecReset == Init /\ [][NextReset]_vars

\* password recovery next to login
NextRecover ==
    \/ \E e \in Emails, p \in Passwords : Login(e, p)
    \/ \E e \in Emails : ForgotPasswordBegin(e)
    \/ \E req \in pending, d \in BOOLEAN : ForgotPasswordEnd(req, d)
    \/ \E tok \in 0..MaxTokens, p \in Passwords : ResetPassword(tok, p)

SpecRecover == Init /\ [][NextRecover]_vars

\* login requests running concurrently, and time
NextRace ==
    \/ \E e \in Emails, p \in Passwords : LoginBegin(e, p)
    \/ \E req \in logins : LoginEnd(req)
    \/ Tick

SpecRace == Init /\ [][NextRace]_vars

\* the category routes, with a login for their bearer token and a
\* transaction to refer to a category
NextCategories ==
    \/ Login(SeedEmail, SeedPassword)
    \/ \E k \in Presentable : InitializeCategories(k)
    \/ \E k \in Presentable, n \in CategoryNames : CreateCategory(k, n)
    \/ \E k \in Presentable, id \in 1..MaxCats, b \in UpdateBodies : UpdateCategory(k, id, b)
    \/ \E k \in Presentable, id \in 1..MaxCats : DeleteCategory(k, id)
    \/ \E k \in Presentable, id \in 1..MaxCats : DeactivateCategory(k, id)
    \/ \E k \in Presentable, id \in 1..MaxCats : ActivateCategory(k, id)
    \/ \E k \in Presentable :
           CreateTransaction(k, [amount |-> 10, category |-> CatRef(Len(DefaultCategoryNames) + 1)])

SpecCategories == Init /\ [][NextCategories]_vars

\* the transaction routes for two accounts: the seeded one logs in, the
\* other signs in with Google
NextLedger ==
    \/ Login(SeedEmail, SeedPassword)
    \/ OAuthCallback("google", 1, "new@example.com")
    \/ \E k \in Presentable, b \in CreateBodies : CreateTransaction(k, b)
    \/ \E k \in Presentable, id \in 1..MaxTx : GetTransaction(k, id)
    \/ \E k \in Presentable, id \in 1..MaxTx, b \in UpdateTxBodies : UpdateTransaction(k, id, b)
    \/ \E k \in Presentable, id \in 1..MaxTx : DeleteTransaction(k, id)

SpecLedger == Init /\ [][NextLedger]_vars

\* the API client entering transactions and syncing its offline queue
NextSync ==
    \/ \E ok \in BOOLEAN : ClientCreateTransaction(ok)
    \/ SyncBegin
    \/ \E run \in syncRuns, ok \in BOOLEAN : SyncCreate(run, ok)

SpecSync == Init /\ [][NextSync]_vars

\* the API client signing in and out against the backend
NextClient ==
    \/ \E e \in {SeedEmail, "not-an-email"}, p \in {SeedPassword, "Passw0rd!"} :
           ClientLogin(e, p)
    \/ \E n \in {"", "John"} : ClientRegister(n, "new@example.com", "Passw0rd!")
    \/ ClientGetCurrentUser
    \/ ClientLogout
    \/ Tick

SpecClient == Init /\ [][NextClient]_vars

\* recurring transactions, the sweep, and the calendar
NextSweep ==
    \/ \E i \in Intervals, e \in EndDates, st \in {"active", "cancelled"} :
           CreateRecurring(i, e, st)
    \/ ProcessRecurring
    \/ NextDay

SpecSweep == Init /\ [][NextSweep]_vars

\* sessions over the life of an account: login, the gate, refresh, logout,
\* account deletion, and time
NextSession ==
    \/ \E e \in Emails, p \in Passwords : Login(e, p)
    \/ \E k \in Presentable : Me(k)
    \/ \E k \in Presentable \cup PresentableRefresh : Refresh(k)
    \/ \E k \in Presentable : Logout(k)
    \/ \E k \in Presentable, p \in Passwords : DeleteAccount(k, p)
    \/ Tick

SpecSession == Init /\ [][NextSession]_vars

\* sign-in through a provider next to password login and the gate
NextOAuth ==
    \/ \E pr \in Providers, pid \in ProviderIds, e \in ProfileEmails :
           OAuthCallback(pr, pid, e)
    \/ \E e \in Emails, p \in Passwords : Login(e, p)
    \/ \E k \in Presentable : Me(k)

SpecOAuth == Init /\ [][NextOAuth]_vars

(* ------------------------------- claims ------------------------------- *)
\* the accounts that have a password, and the password their holder chose
HasPassword(u) == u.password.kind # "none"

\* the stores that n back-to-back login calls on `email`, each answered
\* 401 "Invalid credentials" after a failed password check, can leave behind
RECURSIVE FailedLogins(_, _, _, _)
FailedLogins(us, t, email, n) ==
    IF n = 0
    THEN {us}
    ELSE LET answers == {LoginResult(s, 1, t, email, p) :
                            s \in FailedLogins(us, t, email, n - 1), p \in Passwords}
         IN  {r.users : r \in {x \in answers : /\ x.status = 401
                                               /\ x.msg = MsgInvalidCredentials
                                               /\ x.uid # 0}}

\* C1: in every reachable state and for every account with a password: (a) five
\* consecutive login calls that fail the password check leave the account locked
\* for LockTime (2 hours), and a sixth call is answered "locked" whatever password
\* it carries, the correct one included; (b) once the lock time of an active
\* account has passed, a login with the correct password succeeds and leaves
\* loginAttempts at 0 and lockUntil cleared.
C1_LockoutAfterFiveFailures ==
    \A id \in Ids(users) :
        HasPassword(users[id]) =>
            /\ \A s \in FailedLogins(users, now, users[id].email, MaxLoginAttempts) :
                  /\ s[id].lockUntil = now + LockTime
                  /\ \A p \in Passwords :
                        LET r == LoginResult(s, readyState, now, users[id].email, p) IN
                        r.status = 401 /\ r.msg = MsgLocked /\ r.users = s
            /\ (users[id].lockUntil # Null /\ users[id].lockUntil <= now
                    /\ users[id].isActive) =>
                  LET r == LoginResult(users, readyState, now, users[id].email,
                                       users[id].password.of) IN
                  /\ r.status = 200
                  /\ r.users[id].loginAttempts = 0
                  /\ r.users[id].lockUntil = Null

\* C1 witness: the fifth failure has locked the account, the calls that follow
\* are turned away as locked, and the lock is still running
C1_Witness ==
    /\ resp.op = "login" /\ resp.status = 401 /\ resp.msg = MsgLocked
    /\ resp.uid \in Ids(users)
    /\ users[resp.uid].loginAttempts = MaxLoginAttempts
    /\ users[resp.uid].lockUntil = 1 + LockTime
    /\ now > 1

\* C3 as claimed: for every valid (name, email, password) with an email that is
\* not registered yet, register succeeds and a login with the same email and
\* password right after it succeeds and returns the lowercased email.
C3_RegisterThenLogin ==
    \A n \in Names, e \in Emails, p \in Passwords :
        (n # "" /\ IsEmail(e) /\ IsStrongPassword(p)
            /\ FindByEmail(users, normalizeEmail(e)) = 0) =>
            LET r == RegisterResult(users, now, n, e, p)
                l == LoginResult(r.users, readyState, now, e, p)
            IN  r.status = 201 /\ l.status = 200 /\ l.email = normalizeEmail(e)

\* C4 as claimed: register with an email that is already registered answers 400,
\* issues no tokens and leaves the store unchanged.
C4_RegisterDuplicateEmail ==
    \A n \in Names, e \in Emails, p \in Passwords :
        (n # "" /\ IsEmail(e) /\ FindByEmail(users, normalizeEmail(e)) # 0) =>
            LET r == RegisterResult(users, now, n, e, p) IN
            r.status = 400 /\ r.token = NoToken /\ r.users = users

\* C5 as claimed: the access token of a successful register is admitted by
\* authenticateToken right away.
C5_RegisterTokenAdmitted ==
    \A n \in Names, e \in Emails, p \in Passwords :
        LET r == RegisterResult(users, now, n, e, p) IN
        r.status = 201 => authenticateToken(r.users, readyState, now, r.token).admit

\* C7: in every reachable state, a login with an unknown email and a login with
\* a known email of an active, unlocked account and a wrong password get the
\* same status code and the same message.
C7_LoginNoEnumeration ==
    \A e1 \in Emails, e2 \in Emails, p1 \in Passwords, p2 \in Passwords :
        LET known == FindByEmail(users, normalizeEmail(e2)) IN
        (/\ IsEmail(e1) /\ IsEmail(e2)
         /\ FindByEmail(users, normalizeEmail(e1)) = 0
         /\ known # 0
         /\ users[known].isActive /\ ~isLocked(users[known], now)
         /\ ~comparePassword(users[known], p2)) =>
            LET a == LoginResult(users, readyState, now, e1, p1)
                b == LoginResult(users, readyState, now, e2, p2)
            IN  a.status = b.status /\ a.msg = b.msg

\* C7 witness: a wrong password on a known, active, unlocked account has been
\* answered while an unknown email is at hand to compare it with
C7_Witness ==
    /\ resp.op = "login" /\ resp.status = 401 /\ resp.msg = MsgInvalidCredentials
    /\ resp.uid \in Ids(users)
    /\ users[resp.uid].isActive /\ ~isLocked(users[resp.uid], now)
    /\ \E e \in Emails : IsEmail(e) /\ FindByEmail(users, normalizeEmail(e)) = 0

ForgotPasswordAnswers(us, rs, t, emailRaw) ==
    LET s == ForgotPasswordSave(us, rs, t, emailRaw, nextTok) IN
    IF s.status # 0
    THEN {s}
    ELSE {ForgotPasswordSend(s.users, [uid |-> s.uid, tok |-> nextTok], d) :
             d \in BOOLEAN}

\* C6 as claimed: forgot-password answers an email of no account and an email
\* of an existing account with the same status and the same message.
C6_ForgotPasswordNoEnumeration ==
    \A e1 \in Emails, e2 \in Emails :
        (/\ IsEmail(e1) /\ IsEmail(e2)
         /\ FindByEmail(users, normalizeEmail(e1)) = 0
         /\ FindByEmail(users, normalizeEmail(e2)) # 0) =>
            \A a \in ForgotPasswordAnswers(users, readyState, now, e1),
               b \in ForgotPasswordAnswers(users, readyState, now, e2) :
                a.status = b.status /\ a.msg = b.msg

\* C8: in every reachable state, for every account holding a reset token and
\* every acceptable new password: (a) if the stored expiry is in the past,
\* reset-password with that token answers 400 "invalid or expired" and leaves
\* the store as it was; (b) if the expiry is in the future, reset-password with
\* that token answers 200 and stores the new password, and a second call with
\* the same token answers 400 "invalid or expired" and changes nothing; (c) a
\* token that was redeemed at any earlier time is refused.
C8_ResetTokenExpiryAndSingleUse ==
    /\ \A id \in Ids(users), tok \in 1..MaxTokens, p \in Passwords :
          (IsStrongPassword(p) /\ users[id].passwordResetToken = Sha256(tok)) =>
              LET r == ResetPasswordResult(users, readyState, now, tok, p) IN
              /\ users[id].passwordResetExpires < now =>
                    r.status = 400 /\ r.msg = MsgResetBadToken /\ r.users = users
              /\ users[id].passwordResetExpires > now =>
                    /\ r.status = 200 /\ r.uid = id
                    /\ r.users[id].password = BcryptHash(p)
                    /\ \A q \in Passwords :
                          IsStrongPassword(q) =>
                              LET r2 == ResetPasswordResult(r.users, readyState, now, tok, q)
                              IN  /\ r2.status = 400 /\ r2.msg = MsgResetBadToken
                                  /\ r2.users = r.users
    /\ \A tok \in redeemed, p \in Passwords :
          IsStrongPassword(p) =>
              LET r == ResetPasswordResult(users, readyState, now, tok, p) IN
              r.status = 400 /\ r.msg = MsgResetBadToken /\ r.users = users

\* C8 witness: a token that was redeemed before has been presented again and
\* refused, while another account state holds a token whose expiry has passed
C8_Witness ==
    /\ resp.op = "reset-password" /\ resp.status = 400 /\ resp.msg = MsgResetBadToken
    /\ resp.tok \in redeemed
    /\ \E id \in Ids(users) :
          /\ users[id].passwordResetToken # Null
          /\ users[id].passwordResetExpires < now

\* C9 as claimed: whenever reset-password with a token and a new password is
\* answered 200 for an account, a login right after it with the account's email
\* and the new password is answered 200, and a login with the old password, if
\* it differs from the new one, is not.
C9_LoginAfterReset ==
    \A tok \in 1..MaxTokens, p \in Passwords :
        LET r == ResetPasswordResult(users, readyState, now, tok, p) IN
        r.status = 200 =>
            LET old == users[r.uid].password.of
                new == LoginResult(r.users, readyState, now, users[r.uid].email, p)
                stale == LoginResult(r.users, readyState, now, users[r.uid].email, old)
            IN  /\ new.status = 200
                /\ old # p => stale.status # 200

\* C10: (a) in every reachable state, when the mailer call of a waiting
\* forgot-password request fails, the answer is 500 and the store it leaves has
\* neither reset token hash nor expiry on the account, so that reset-password
\* with the token of that request is refused; (b) a token whose request ended
\* that way is refused by reset-password at every later time.
C10_RollbackOnEmailFailure ==
    /\ \A req \in pending, d \in BOOLEAN :
          LET r == ForgotPasswordSend(users, req, d) IN
          r.status # 200 =>
              /\ r.status = 500
              /\ r.users[req.uid].passwordResetToken = Null
              /\ r.users[req.uid].passwordResetExpires = Null
              /\ \A p \in Passwords :
                    ResetPasswordResult(r.users, readyState, now, req.tok, p).status = 400
    /\ \A tok \in rolledBack, p \in Passwords :
          ResetPasswordResult(users, readyState, now, tok, p).status = 400

\* C10 witness: a forgot-password request that had stored a token was answered
\* 500 and the account holds no token
C10_Witness ==
    /\ resp.op = "forgot-password" /\ resp.status = 500
    /\ resp.uid \in Ids(users)
    /\ resp.tok \in rolledBack
    /\ users[resp.uid].passwordResetToken = Null
    /\ users[resp.uid].passwordResetExpires = Null

\* the subjects a signed token can name: the mock id of the demo branches,
\* every stored account, and one id that is not stored
TokenSubjects == {DemoId(now)} \cup (1..(Len(users) + 1))

\* C11: in every reachable state, for every validly signed, unexpired access
\* token: authenticateToken admits the request exactly when an account with the
\* token's userId is stored and has isActive = TRUE; when it admits, the
\* identity it hands on is that stored account (GET /auth/me answers with the
\* stored email); and every token issued at an earlier time to an account that
\* has since been deactivated is turned away.
C11_GateAdmitsStoredActiveAccount ==
    /\ \A id \in TokenSubjects, x \in {now + 1, now + AccessTokenTtl} :
          LET tok == [kind |-> "access", userId |-> id, exp |-> x]
              g == authenticateToken(users, readyState, now, tok)
          IN  /\ g.admit <=> (id \in Ids(users) /\ users[id].isActive)
              /\ g.admit =>
                    /\ g.uid = id
                    /\ MeResult(users, readyState, now, tok).email = users[id].email
    /\ \A id \in closed, t0 \in 1..now :
          ~authenticateToken(users, readyState, now, generateTokens(id, t0)).admit

\* C11 witness: an access token handed out at login has been presented after the
\* account was deactivated, and was refused for that reason
C11_Witness ==
    /\ resp.op = "me" /\ resp.status = 401 /\ resp.msg = MsgDeactivated
    /\ \E id \in closed : id \in issued /\ ~users[id].isActive

\* login with the stored password, refresh and the gate all turn account `id`
\* away in the store `us`, whenever its tokens were issued
RejectedEverywhere(us, id) ==
    /\ LoginResult(us, readyState, now, us[id].email, us[id].password.of).status # 200
    /\ \A t0 \in 1..now :
          /\ RefreshResult(us, readyState, now, generateRefreshToken(id, t0)).status = 401
          /\ ~authenticateToken(us, readyState, now, generateTokens(id, t0)).admit

\* C12: (a) in every reachable state, whenever DELETE /users/account answers
\* 200, the store it leaves still holds the account, with isActive = FALSE, and
\* login with the correct password, refresh and the request gate reject it;
\* (b) every account deleted at any earlier time is still stored, still
\* inactive and still rejected by all three.
C12_DeletedAccountStaysRejected ==
    /\ \A k \in Presentable, p \in Passwords :
          LET r == DeleteAccountResult(users, readyState, now, k, p) IN
          r.status = 200 =>
              /\ Len(r.users) = Len(users)
              /\ ~r.users[r.uid].isActive
              /\ RejectedEverywhere(r.users, r.uid)
    /\ \A id \in closed :
          /\ id \in Ids(users)
          /\ ~users[id].isActive
          /\ RejectedEverywhere(users, id)

\* C12 witness: after its deletion an account has tried to log in and was
\* turned away as deactivated
C12_Witness ==
    /\ resp.op = "login" /\ resp.status = 401 /\ resp.msg = MsgDeactivated
    /\ resp.uid \in closed

\* C13 as claimed: every guest-access call is answered 201 with a newly stored
\* account that has isGuest = TRUE and isEmailVerified = TRUE and whose access
\* token the gate admits right away; a second call at any later clock value
\* does the same with another id and another synthetic email.
C13_GuestAlwaysSucceeds ==
    /\ resp.op = "guest" =>
          /\ resp.status = 201
          /\ resp.uid \in Ids(users)
          /\ users[resp.uid].isGuest /\ users[resp.uid].isEmailVerified
          /\ authenticateToken(users, readyState, now, generateTokens(resp.uid, now)).admit
    /\ \A t2 \in now..MaxClock :
          LET a == GuestResult(users, readyState, now)
              b == GuestResult(a.users, readyState, t2)
          IN  /\ a.status = 201 /\ b.status = 201
              /\ a.uid # b.uid /\ a.email # b.email

\* C14 as claimed: with a connected store, for every profile a provider can
\* report (Google always with an address, Facebook with or without one), the
\* callback lands in the account that holds the provider id if there is one;
\* otherwise in the account with the profile's address, which then holds the
\* provider id and has isEmailVerified = TRUE; otherwise in a newly created
\* account.  A second callback with the same provider id lands in the same
\* account, and no two accounts share an address.
C14_OAuthLookupOrder ==
    /\ readyState = 1 =>
          \A pr \in Providers, pid \in ProviderIds, e \in ProfileEmails :
              (pr = "google" => e # "") =>
                  LET r == OAuthCallbackResult(users, readyState, now, pr, pid, e)
                      byId == FindByProviderId(users, pr, pid)
                      byEmail == IF e = "" THEN 0 ELSE FindByEmail(users, e)
                  IN  /\ byId # 0 => r.uid = byId /\ r.users = users
                      /\ (byId = 0 /\ byEmail # 0) =>
                            /\ r.uid = byEmail
                            /\ FindByProviderId(r.users, pr, pid) = byEmail
                            /\ r.users[byEmail].isEmailVerified
                      /\ (byId = 0 /\ byEmail = 0) =>
                            /\ r.status = 302
                            /\ r.uid = Len(users) + 1
                            /\ Len(r.users) = Len(users) + 1
                      /\ r.status = 302 =>
                            \A e2 \in ProfileEmails :
                                OAuthCallbackResult(r.users, readyState, now,
                                                    pr, pid, e2).uid = r.uid
    /\ \A i \in Ids(users), j \in Ids(users) :
          i # j => users[i].email # users[j].email

\* C15 as claimed: (a) the account that guest access has just created can be
\* upgraded with a name, an unused address and an acceptable password: the
\* answer is 200 and the account is left with isGuest = FALSE, isEmailVerified
\* = FALSE and an unexpired email-verification token, after which requireGuest
\* rejects it and requireAuth admits it; (b) upgrade-guest on an account that
\* is not a guest is refused and changes nothing.
C15_UpgradeGuest ==
    /\ \A n \in Names, e \in Emails, p \in Passwords :
          (/\ n # "" /\ IsEmail(e) /\ IsStrongPassword(p)
           /\ EmailMatchesSchema(normalizeEmail(e))
           /\ FindByEmail(users, normalizeEmail(e)) = 0
           /\ readyState = 1 /\ nextTok <= MaxTokens) =>
              LET g == GuestResult(users, readyState, now)
                  u == UpgradeGuestResult(g.users, readyState, now, g.token,
                                          n, e, p, nextTok)
              IN  /\ g.status = 201
                  /\ u.status = 200
                  /\ ~u.users[u.uid].isGuest /\ ~u.users[u.uid].isEmailVerified
                  /\ u.users[u.uid].emailVerificationToken # Null
                  /\ u.users[u.uid].emailVerificationExpires > now
                  /\ ~requireGuest(u.users[u.uid]) /\ requireAuth(u.users[u.uid])
    /\ \A k \in Presentable, n \in Names, e \in Emails, p \in Passwords :
          LET g == authenticateToken(users, readyState, now, k)
              u == UpgradeGuestResult(users, readyState, now, k, n, e, p, nextTok)
          IN  (g.admit /\ ~users[g.uid].isGuest) => (u.status = 400 /\ u.users = users)

\* C16 as claimed: (a) in every reachable state verify-email answers 200 only
\* for a token whose hash an account stores with an expiry in the future, and
\* any other token is refused and changes nothing; (b) the verification token
\* that the code issues (upgrade-guest on the account guest access has just
\* created) is accepted at every time before its expiry, which sets
\* isEmailVerified = TRUE and clears the token fields, so that a second use is
\* refused and changes nothing, and it is refused from 24 hours after issue on.
C16_VerifyEmailOnce ==
    /\ \A tok \in 0..MaxTokens :
          LET v == VerifyEmailResult(users, readyState, now, tok) IN
          IF \E id \in Ids(users) : /\ tok # Null
                                    /\ users[id].emailVerificationToken = Sha256(tok)
                                    /\ users[id].emailVerificationExpires > now
          THEN v.status = 200
          ELSE v.status # 200 /\ v.users = users
    /\ (readyState = 1 /\ nextTok <= MaxTokens) =>
          LET g == GuestResult(users, readyState, now)
              u == UpgradeGuestResult(g.users, readyState, now, g.token, "New User",
                                      "new@example.com", "Passw0rd!", nextTok)
          IN  FindByEmail(users, "new@example.com") = 0 =>
                  /\ u.status = 200
                  /\ \A t2 \in now..(now + VerifyTokenTtl + 1) :
                        LET v == VerifyEmailResult(u.users, readyState, t2, nextTok)
                            w == VerifyEmailResult(v.users, readyState, t2, nextTok)
                        IN  IF t2 < now + VerifyTokenTtl
                            THEN /\ v.status = 200
                                 /\ v.users[v.uid].isEmailVerified
                                 /\ v.users[v.uid].emailVerificationToken = Null
                                 /\ v.users[v.uid].emailVerificationExpires = Null
                                 /\ w.status = 400 /\ w.users = v.users
                            ELSE v.status = 400 /\ v.users = u.users

\* what a client can send to POST /auth/refresh: nothing, an access token, or
\* a refresh token (expired or not) for any subject
RefreshInputs ==
    {NoToken}
    \cup {generateTokens(id, now) : id \in TokenSubjects}
    \cup {[kind |-> "refresh", userId |-> id, exp |-> x] :
             id \in TokenSubjects, x \in {now, now + 1, now + RefreshTokenTtl}}

\* C17: in every reachable state and for every token a client can send, refresh
\* answers 200 exactly when the token verifies as a refresh token and names a
\* stored, active account; a 200 answer carries an access token that the gate
\* admits and a refresh token that verifies, both for that account, and leaves
\* the store unchanged; every other answer is 401 and carries no tokens.
C17_RefreshIffValidAndActive ==
    \A tok \in RefreshInputs :
        LET r == RefreshResult(users, readyState, now, tok) IN
        /\ r.status = 200 <=>
              /\ verifyRefreshToken(tok, now)
              /\ tok.userId \in Ids(users)
              /\ users[tok.userId].isActive
        /\ r.status = 200 =>
              /\ r.token.kind = "access" /\ r.token.userId = tok.userId
              /\ authenticateToken(users, readyState, now, r.token).admit
              /\ r.refresh.userId = tok.userId
              /\ verifyRefreshToken(r.refresh, now)
              /\ r.users = users
        /\ r.status # 200 =>
              r.status = 401 /\ r.token = NoToken /\ r.refresh = NoToken /\ r.users = users

\* C17 witness: an unexpired refresh token of a stored, active account was
\* exchanged for new tokens
C17_Witness ==
    /\ resp.op = "refresh" /\ resp.status = 200
    /\ resp.uid \in Ids(users) /\ users[resp.uid].isActive
    /\ resp.uid \in issued

\* access tokens a client can hold: the presentable ones and, for every
\* subject, tokens on the point of expiring
AccessInputs ==
    Presentable
    \cup {[kind |-> "access", userId |-> id, exp |-> x] :
             id \in TokenSubjects, x \in now..(now + 2)}

\* C18: in every reachable state, a logout with any token a client can hold
\* leaves the store as it was and issues nothing; every access token gets the
\* same answer from the gate after the logout as before it; and the token that
\* logged out is admitted afterwards at every later time before its own expiry.
C18_LogoutChangesNothing ==
    \A k \in AccessInputs :
        LET r == LogoutResult(users, readyState, now, k) IN
        /\ r.users = users
        /\ r.token = NoToken
        /\ r.status = 200 <=> authenticateToken(users, readyState, now, k).admit
        /\ \A tok \in AccessInputs :
              authenticateToken(r.users, readyState, now, tok)
                  = authenticateToken(users, readyState, now, tok)
        /\ r.status = 200 =>
              \A t2 \in now..(now + 3) :
                  authenticateToken(r.users, readyState, t2, k).admit <=> k.exp > t2

\* C18 witness: a logout was answered 200 and the account's token is still
\* admitted by the gate
C18_Witness ==
    /\ resp.op = "logout" /\ resp.status = 200
    /\ resp.uid \in Ids(users)
    /\ authenticateToken(users, readyState, now, generateTokens(resp.uid, now)).admit

\* the fields no returned user object may carry
SecretFields ==
    {"password", "passwordResetToken", "passwordResetExpires",
     "emailVerificationToken", "emailVerificationExpires"}

\* the answers of the routes that return a user object, over every request
UserAnswers ==
    {RegisterResult(users, now, n, e, p) : n \in Names, e \in Emails, p \in Passwords}
    \cup {LoginResult(users, readyState, now, e, p) : e \in Emails, p \in Passwords}
    \cup {GuestResult(users, readyState, now)}
    \cup {ResetPasswordResult(users, readyState, now, tok, p) :
             tok \in 0..MaxTokens, p \in Passwords}
    \cup {MeResult(users, readyState, now, k) : k \in Presentable}
    \cup UNION {{UpgradeGuestResult(users, readyState, now, k, n, e, p, nextTok) :
                    n \in Names, e \in Emails} : k \in Presentable, p \in Passwords}

\* a stored document as upgrade-guest saves it, with a verification token
\* drawn, is returned without any secret field
UpgradedDocumentSanitized ==
    \A i \in Ids(users), tok \in 1..MaxTokens :
        LET doc == [users[i] EXCEPT !.emailVerificationToken = Sha256(tok),
                                    !.emailVerificationExpires = now + VerifyTokenTtl]
        IN  /\ {"emailVerificationToken", "emailVerificationExpires"}
                   \subseteq DOMAIN toObject(doc, now)
            /\ (DOMAIN sanitizeUser(toObject(doc, now))) \cap SecretFields = {}

\* C19: in every reachable state and for every request, the user object of a
\* 2xx answer of register, login, guest, reset-password, me (profile and
\* preferences return the same object) and upgrade-guest names the account by
\* its email and has none of the fields password, passwordResetToken,
\* passwordResetExpires, emailVerificationToken, emailVerificationExpires; the
\* same holds of any stored document once upgrade-guest has drawn its
\* verification token.
C19_NoSecretsInReturnedUser ==
    /\ UpgradedDocumentSanitized
    /\ \A r \in UserAnswers :
        r.status \in {200, 201} =>
            /\ "email" \in DOMAIN BodyUser(r, now)
            /\ BodyUser(r, now).email = r.email
            /\ (DOMAIN BodyUser(r, now)) \cap SecretFields = {}

\* C19 witness: a login was answered 200 for an account whose stored document
\* holds a password hash and an open reset token
C19_Witness ==
    /\ resp.op = "login" /\ resp.status = 200
    /\ resp.uid \in Ids(users)
    /\ HasPassword(users[resp.uid])
    /\ users[resp.uid].passwordResetToken # Null
    /\ users[resp.uid].passwordResetExpires > now
    /\ \E e \in Emails, p \in Passwords :
          LET r == LoginResult(users, readyState, now, e, p) IN
          r.status = 200 /\ r.uid = resp.uid

\* the well-formed login requests against the connected store, each with the
\* account its email names (0: none) and the refusal that applies to it
LoginRefusals ==
    {[r |-> LoginResult(users, readyState, now, e, p),
      why |-> LET id == FindByEmail(users, normalizeEmail(e)) IN
              IF id = 0 THEN "unknown"
              ELSE IF isLocked(users[id], now) THEN "locked"
              ELSE IF ~users[id].isActive THEN "deactivated"
              ELSE IF ~comparePassword(users[id], p) THEN "wrong password"
              ELSE "none"] :
        e \in {x \in Emails : IsEmail(x)}, p \in Passwords \ {""}}

C21_ExpiredLockCleared ==
    readyState = 1 =>
        \A e \in {x \in Emails : IsEmail(x)}, p \in Passwords \ {""} :
            LET r == LoginResult(users, readyState, now, e, p)
                id == FindByEmail(users, normalizeEmail(e))
            IN  /\ (id # 0 /\ users[id].isActive
                           /\ users[id].lockUntil # Null /\ users[id].lockUntil < now) =>
                      IF comparePassword(users[id], p)
                      THEN /\ r.status = 200
                           /\ r.users[id].lockUntil = Null
                           /\ r.users[id].loginAttempts = 0
                      ELSE /\ r.status = 401 /\ r.msg = MsgInvalidCredentials
                           /\ r.users[id].lockUntil = Null
                           /\ r.users[id].loginAttempts = 1
                /\ \A i \in Ids(r.users) :
                      (r.users[i].lockUntil # Null
                          /\ r.users[i].lockUntil # users[i].lockUntil) =>
                          r.users[i].lockUntil > now

\* C21 witness: a login that found a run-out lock failed the password check
\* and left the account unlocked with one failed attempt counted
C21_Witness ==
    /\ resp.op = "login" /\ resp.status = 401 /\ resp.lockExpired
    /\ users[resp.uid].lockUntil = Null
    /\ users[resp.uid].loginAttempts = 1

\* C22: in every reachable state of concurrently running logins, an account
\* whose stored loginAttempts is 5 or more has lockUntil set, and while that
\* lock has not run out a login with any password is rejected as locked.
C22_ConcurrentLockout ==
    \A i \in Ids(users) :
        users[i].loginAttempts >= MaxLoginAttempts =>
            /\ users[i].lockUntil # Null
            /\ isLocked(users[i], now) =>
                  \A p \in Passwords \ {""} :
                      LoginResult(users, readyState, now, users[i].email, p).msg = MsgLocked

\* the raw reset tokens that reset-password would accept for account i
Redeemable(us, i, t) ==
    {tok \in 1..MaxTokens : FindByResetToken(us, Sha256(tok), t) = i}

\* C23: in every reachable state each account has at most one redeemable reset
\* token; once forgot-password has saved a new token for an account, that token
\* is the only one redeemable for it; and after a successful reset-password or
\* a successful PUT /users/password no token is redeemable for the account.
C23_OneRedeemableResetToken ==
    /\ \A i \in Ids(users) : Cardinality(Redeemable(users, i, now)) <= 1
    /\ \A e \in Emails :
          LET r == ForgotPasswordSave(users, readyState, now, e, nextTok) IN
          (r.status = 0 /\ nextTok <= MaxTokens) =>
              Redeemable(r.users, r.uid, now) = {nextTok}
    /\ \A tok \in 0..MaxTokens, p \in Passwords :
          LET r == ResetPasswordResult(users, readyState, now, tok, p) IN
          r.status = 200 => Redeemable(r.users, r.uid, now) = {}
    /\ \A k \in Presentable, c \in Passwords, p \in Passwords :
          LET r == ChangePasswordResult(users, readyState, now, k, c, p) IN
          r.status = 200 => Redeemable(r.users, r.uid, now) = {}

\* C23 witness: the password of an account was changed through
\* PUT /users/password while a forgot-password request for it was waiting for
\* its mail, and the token of that request is not redeemable
C23_Witness ==
    /\ resp.op = "change-password" /\ resp.status = 200
    /\ \E req \in pending :
          /\ req.uid = resp.uid
          /\ users[req.uid].passwordResetToken = Null
          /\ Redeemable(users, req.uid, now) = {}

\* what the category endpoints DELETE /:id, PATCH /:id/deactivate and PUT /:id
\* can leave in the collection, over every request
CategoryOutcomes ==
    {DeleteCategoryResult(categories, txs, id).cats : id \in 1..MaxCats}
    \cup {DeactivateCategoryResult(categories, id).cats : id \in 1..MaxCats}
    \cup {UpdateCategoryResult(categories, id, b).cats : id \in 1..MaxCats, b \in UpdateBodies}

\* C24: in every reachable state every default category is active, and
\* whatever DELETE /:id, PATCH /:id/deactivate or PUT /:id is asked, every
\* default category is afterwards still present, default and active.
C24_DefaultCategoriesStay ==
    /\ \A c \in categories : c.isDefault => c.isActive
    /\ \A cats \in CategoryOutcomes :
          \A c \in categories :
              c.isDefault => \E d \in cats : d.id = c.id /\ d.isDefault /\ d.isActive

\* C25: in every reachable state with a forgot-password request a waiting for
\* its mail, if a second request b for the same account saves its token, b's
\* mail is dispatched and then a's dispatch fails, then b is answered 200 and
\* b's token is redeemable after a has rolled back.
C25_ConcurrentForgotPassword ==
    \A a \in pending :
        nextTok <= MaxTokens =>
            LET sb == ForgotPasswordSave(users, readyState, now, users[a.uid].email, nextTok)
                b == [uid |-> sb.uid, tok |-> nextTok]
                rb == ForgotPasswordSend(sb.users, b, TRUE)
                ra == ForgotPasswordSend(rb.users, a, FALSE)
            IN  sb.status = 0 =>
                    /\ rb.status = 200
                    /\ ra.status = 500
                    /\ nextTok \in Redeemable(ra.users, a.uid, now)

\* C26: in every reachable state, for every account whose isActive is false,
\* neither login, nor refresh, nor an OAuth callback that resolves to the
\* account (by provider id or by email), nor a reset-password with a token
\* that forgot-password saved for it, returns a session token.
C26_NoTokensForDeactivated ==
    \A i \in Ids(users) :
        ~users[i].isActive =>
            /\ \A p \in Passwords :
                  LoginResult(users, readyState, now, users[i].email, p).token = NoToken
            /\ RefreshResult(users, readyState, now,
                             generateRefreshToken(i, now)).token = NoToken
            /\ \A provider \in Providers, pid \in ProviderIds, e \in ProfileEmails :
                  LET r == OAuthCallbackResult(users, readyState, now, provider, pid, e) IN
                  r.uid = i => r.token = NoToken
            /\ \A p \in Passwords :
                  LET sb == ForgotPasswordSave(users, readyState, now, users[i].email,
                                               MaxTokens)
                      r == ResetPasswordResult(sb.users, readyState, now, MaxTokens, p)
                  IN  r.uid = i => r.token = NoToken

\* C27: in every reachable state and for every caller the gate admits, a
\* created transaction belongs to the caller whatever the body names; a
\* transaction of another account is not returned by GET /:id and is left as
\* it is by PUT /:id and DELETE /:id; and a transaction of the caller still
\* belongs to the caller after PUT /:id, whatever the body carries.
C27_TransactionOwnerFixed ==
    \A k \in Presentable :
        Caller(k) # 0 =>
            /\ \A b \in CreateBodies :
                  \A x \in CreateTransactionResult(txs, nextTx, Caller(k), b).found :
                      x.user = Caller(k)
            /\ \A x \in txs :
                  IF x.user # Caller(k)
                  THEN /\ GetTransactionResult(txs, Caller(k), x.id).found = {}
                       /\ DeleteTransactionResult(txs, Caller(k), x.id).ts = txs
                       /\ \A b \in UpdateTxBodies :
                             UpdateTransactionResult(txs, Caller(k), x.id, b).ts = txs
                  ELSE \A b \in UpdateTxBodies :
                           \A y \in UpdateTransactionResult(txs, Caller(k), x.id, b).ts :
                               y.id = x.id => y.user = x.user

\* C28: in every reachable state no transaction entered in the client has
\* been created on the backend more than once, and whenever no sync is
\* running each of them has been created once or is still in the offline queue.
C28_SyncExactlyOnce ==
    \A item \in DOMAIN createdCount :
        /\ createdCount[item] <= 1
        /\ syncRuns = {} => (createdCount[item] = 1 \/ item \in Range(offlineQueue))

\* C29: once login() or register() has succeeded, and until logout(), the client
\* holds the access token of the answer, and the header makeRequest builds is
\* 'Authorization: Bearer <that access token>'.
C29_ClientCarriesAccessToken ==
    sessionToken # NoToken =>
        Authorization(clientToken) = [scheme |-> "Bearer", token |-> sessionToken]

\* C30: of one recurring transaction the sweep generates at most one
\* transaction per due date, however often it runs: among the generated
\* documents no two descend from the same recurring transaction and bear the
\* same date.
C30_OneGeneratedPerDueDate ==
    \A a, b \in recurring :
        (a.root # a.id /\ b.root # b.id /\ a.root = b.root /\ a.date = b.date)
            => a = b

====
